---- MODULE Spec2Model ----
(***************************************************************************)
(* Model of the proxy supervisor, the log watcher and the request history  *)
(* of src-tauri/src/lib.rs.                                                 *)
(*                                                                         *)
(* Three groups of state live side by side:                                *)
(*   - the history blob (history.json) and the commands that rewrite it;   *)
(*   - the supervisor (proxy_status, proxy_process, log_watcher_running)   *)
(*     with start_proxy, stop_proxy and the sidecar's event consumer;      *)
(*   - one log watcher thread following logs/main.log.                     *)
(* Each group has its own specification (SpecHist, Spec, SpecTail); the    *)
(* variables of the other groups stay at their initial value there.        *)
(*                                                                         *)
(* Abstractions: Option<T> is a sequence of length 0 or 1; a path is the   *)
(* sequence of its '/'-separated segments; an event id "req_<ts>_<n>" is   *)
(* the pair <<ts, n>>; f64 cost is an integer number of nano-dollars.      *)
(***************************************************************************)
EXTENDS Integers, Sequences, FiniteSets, TLC

VARIABLES
    \* ---- history store
    history_file,         \* history.json: [readable, data: RequestHistory]
    ret,                  \* what the last finished command returned: [ok, value]
    last,                 \* ghost: the step taken last: [op, arg]
    hist_base,            \* ghost: what history.json held when the run began or was last cleared:
                          \*        "empty", "full", or "corrupt" (nothing that can be loaded)
    appended,             \* ghost: the requests whose append was carried out since then
                          \*        (under SpecIds: the requests the watchers produced)
    ops,                  \* ghost: number of history commands run so far
    add_call,             \* an add_request_to_history between its load and its save:
                          \*        Option<[loaded, request]>
    persist_call,         \* the watcher between its load and its save, likewise
    \* ---- supervisor
    proxy_status,         \* AppState.proxy_status
    proxy_process,        \* AppState.proxy_process: Option<CommandChild>
    log_watcher_running,  \* AppState.log_watcher_running
    config_port,          \* AppState.config.port
    children,             \* sidecar processes spawned so far and their event streams
    watchers,             \* log watcher threads started by start_proxy
    start_pc, start_new,  \* position of the start_proxy call in flight, its local new_status
    stop_pc, stop_new,    \* position of the stop_proxy call in flight, its local new_status
    start_port,           \* its local config.port
    emitted,              \* events put on the UI channel by the last step
    \* ---- log watcher following main.log
    log_path_file,        \* id of the file currently named logs/main.log (0: none)
    files,                \* file id -> sequence of lines
    tail_pc,              \* position of the watcher thread
    attempts,             \* its local attempts
    reader,               \* its BufReader: [file, pos]
    last_pos,             \* its local last_pos
    request_counter,      \* AppState.request_counter
    rotations,            \* number of times main.log was truncated or replaced
    rotated,              \* ghost: the watcher has reset since the last rotation
    seen,                 \* ghost: the <<file, position>> of the lines the watcher has read
    old_lines             \* ghost: the <<file, position>> of the lines that were in main.log
                          \*        when the watcher opened it, until the watcher resets

histData == <<history_file, hist_base, appended, ops>>
histVars == <<histData, ret, last>>
supVars  == <<proxy_status, proxy_process, log_watcher_running, config_port, children,
              watchers, start_pc, start_new, start_port, stop_pc, stop_new, emitted>>
tailVars == <<log_path_file, files, tail_pc, attempts, reader, last_pos,
              request_counter, rotations, rotated, seen, old_lines>>
callVars == <<add_call, persist_call>>
vars == <<histVars, callVars, supVars, tailVars>>

(***************************************************************************)
(* Option<T>                                                               *)
(***************************************************************************)
None == <<>>
Some(x) == <<x>>
unwrap_or(o, d) == IF o = None THEN d ELSE o[1]

Range(s) == {s[i] : i \in 1..Len(s)}
LastN(s, n) == SubSeq(s, Len(s) - n + 1, Len(s))

(***************************************************************************)
(* RequestHistory and its file                                             *)
(***************************************************************************)
MaxRequests == 500

RequestHistoryDefault ==
    [requests |-> <<>>, total_tokens_in |-> 0, total_tokens_out |-> 0, total_cost_usd |-> 0]

\* history.json does not exist (or cannot be read)
NoHistoryFile == [readable |-> FALSE, data |-> RequestHistoryDefault]

\* lines 377-387: a variant that trusts what the file holds
load_request_history_unchecked(file) == file.data

\* lines 377-387: the parsed content, or the default record when the file is missing,
\* cannot be read or cannot be parsed
load_request_history(file) ==
    IF file.readable THEN file.data ELSE RequestHistoryDefault

\* a variant that keeps the first 500 requests instead of the last
save_request_history_keepFirst(file, history, write_ok) ==
    LET trimmed == IF Len(history.requests) > MaxRequests
                   THEN [history EXCEPT !.requests = SubSeq(history.requests, 1, MaxRequests)]
                   ELSE history
    IN  IF write_ok THEN [file |-> [readable |-> TRUE, data |-> trimmed], ok |-> TRUE]
        ELSE [file |-> file, ok |-> FALSE]

\* the new content of history.json and whether the write succeeded
save_request_history(file, history, write_ok) ==
    LET trimmed == IF Len(history.requests) > MaxRequests
                   THEN [history EXCEPT !.requests = LastN(history.requests, MaxRequests)]
                   ELSE history
    IN  IF write_ok THEN [file |-> [readable |-> TRUE, data |-> trimmed], ok |-> TRUE]
        ELSE [file |-> file, ok |-> FALSE]

(***************************************************************************)
(* estimate_request_cost: rates per 1M tokens, here in thousandths of a    *)
(* dollar, so that the cost of a request is a whole number of nano-dollars.*)
(* A model name is the sequence of its lower-case words.                   *)
(***************************************************************************)
\* s.contains(kw) for the keywords of the rate table ("gpt-4o" contains "gpt-4", ...)
WordContains(w, kw) ==
    \/ w = kw
    \/ <<w, kw>> \in {<<"gpt-4o", "gpt-4">>, <<"gpt-4-turbo", "gpt-4">>,
                      <<"gemini-2", "gemini">>}
contains(m, kw) == \E i \in 1..Len(m) : WordContains(m[i], kw)

ModelRates(m) ==
    IF contains(m, "claude") /\ contains(m, "opus") THEN <<15000, 75000>>
    ELSE IF contains(m, "claude") /\ contains(m, "sonnet") THEN <<3000, 15000>>
    ELSE IF contains(m, "claude") /\ contains(m, "haiku") THEN <<250, 1250>>
    ELSE IF contains(m, "gpt-5") THEN <<15000, 45000>>
    ELSE IF contains(m, "gpt-4o") THEN <<2500, 10000>>
    ELSE IF contains(m, "gpt-4-turbo") \/ contains(m, "gpt-4") THEN <<10000, 30000>>
    ELSE IF contains(m, "gpt-3.5") THEN <<500, 1500>>
    ELSE IF contains(m, "gemini") /\ contains(m, "pro") THEN <<1250, 5000>>
    ELSE IF contains(m, "gemini") /\ contains(m, "flash") THEN <<75, 300>>
    ELSE IF contains(m, "gemini-2") THEN <<100, 400>>
    ELSE IF contains(m, "qwen") THEN <<500, 2000>>
    ELSE <<1000, 3000>>

estimate_request_cost(model, tokens_in, tokens_out) ==
    tokens_in * ModelRates(model)[1] + tokens_out * ModelRates(model)[2]

(***************************************************************************)
(* The commands that rewrite history.json, as functions of the file, the   *)
(* argument and the outcome of the file write. Each gives the new file and *)
(* the command's result.                                                   *)
(***************************************************************************)
Key(r) == <<r.timestamp, r.path>>
KeyIn(r, requests) == \E i \in 1..Len(requests) : Key(requests[i]) = Key(r)
IdIn(r, requests) == \E i \in 1..Len(requests) : requests[i].id = r.id

add_request_to_history(file, request, write_ok) ==
    LET history == load_request_history(file)
        tokens_in == unwrap_or(request.tokens_in, 0)
        tokens_out == unwrap_or(request.tokens_out, 0)
        cost == estimate_request_cost(request.model, tokens_in, tokens_out)
        totalled == [history EXCEPT !.total_tokens_in = @ + tokens_in,
                                    !.total_tokens_out = @ + tokens_out,
                                    !.total_cost_usd = @ + cost]
        pushed == IF ~IdIn(request, totalled.requests)
                  THEN [totalled EXCEPT !.requests = Append(@, request)]
                  ELSE totalled
    IN  save_request_history(file, pushed, write_ok)

\* lines 2179-2182: a variant that empties the requests and keeps the totals
clear_request_history_requests(file, write_ok) ==
    save_request_history(file, [load_request_history(file) EXCEPT !.requests = <<>>], write_ok)

clear_request_history(file, write_ok) ==
    save_request_history(file, RequestHistoryDefault, write_ok)

\* lines 747-766 of start_log_watcher: persist one parsed request
watcher_persist(file, request_log, write_ok) ==
    LET history == load_request_history(file)
        is_duplicate == KeyIn(request_log, history.requests)
        pushed == Append(history.requests, request_log)
        kept == IF Len(pushed) > MaxRequests THEN LastN(pushed, MaxRequests) ELSE pushed
    IN  IF ~is_duplicate
        THEN save_request_history(file, [history EXCEPT !.requests = kept], write_ok)
        ELSE [file |-> file, ok |-> TRUE]

\* the usage response of the management API: per-request token details by model
RECURSIVE SumField(_, _)
SumField(details, f) ==
    IF details = <<>> THEN 0 ELSE details[1][f] + SumField(Tail(details), f)

\* lines 2250-2259 of sync_usage_from_proxy, once the response has been fetched;
\* the details of one response all name one model here
sync_usage_from_proxy(file, details, write_ok) ==
    LET history == load_request_history(file)
        total_input == SumField(details, "input")
        total_output == SumField(details, "output")
        total_cost == IF details = <<>> THEN 0
                      ELSE estimate_request_cost(details[1].model, total_input, total_output)
    IN  save_request_history(file,
            [history EXCEPT !.total_tokens_in = total_input,
                            !.total_tokens_out = total_output,
                            !.total_cost_usd = total_cost],
            write_ok)

(***************************************************************************)
(* The supervisor: AppState, start_proxy, stop_proxy and the task that     *)
(* consumes the sidecar's events. start_proxy and stop_proxy are async     *)
(* commands: one call of each may be in flight, and their steps interleave *)
(* with each other, with the consumers and with the watcher threads. A     *)
(* step is the code between two accesses to shared state.                  *)
(***************************************************************************)
DefaultPort == 8317
Ports == {DefaultPort, DefaultPort + 1}
Endpoint(port) == <<"http://localhost:", port, "/v1">>

ProxyStatusDefault ==
    [running |-> FALSE, port |-> DefaultPort, endpoint |-> Endpoint(DefaultPort)]

\* sidecars and watcher threads created in one run of the model
MaxChildren == 2

Ok(cmd, v) == [cmd |-> cmd, ok |-> TRUE, value |-> v]
Err(cmd, e) == [cmd |-> cmd, ok |-> FALSE, value |-> [error |-> e]]
Unit == [unit |-> TRUE]
Step(op) == [op |-> op, arg |-> <<>>]
StatusChanged(status) == [event |-> "proxy-status-changed", payload |-> status]

\* child.kill(): the process ends (its Terminated event is queued) or the kill fails
Killed(chs, c, kill_ok) ==
    IF kill_ok /\ chs[c] = "alive" THEN [chs EXCEPT ![c] = "terminated"] ELSE chs

\* lines 789-797: a variant that goes on to restart the proxy although it is running
start_check_always ==
    /\ start_pc = "idle"
    /\ start_port' = config_port
    /\ start_pc' = "kill_old"
    /\ last' = Step("start_check")
    /\ emitted' = <<>>
    /\ UNCHANGED <<ret, proxy_status, proxy_process, log_watcher_running, config_port,
                   children, watchers, start_new, stop_pc, stop_new>>

\* lines 789-797: clone the config, return the tracked status if it shows running
start_check ==
    /\ start_pc = "idle"
    /\ start_port' = config_port
    /\ IF proxy_status.running
       THEN /\ ret' = Ok("start_proxy", proxy_status)
            /\ start_pc' = "idle"
       ELSE /\ ret' = ret
            /\ start_pc' = "kill_old"
    /\ last' = Step("start_check")
    /\ emitted' = <<>>
    /\ UNCHANGED <<proxy_status, proxy_process, log_watcher_running, config_port,
                   children, watchers, start_new, stop_pc, stop_new>>

\* lines 799-805: a variant that returns the error of a failed kill
start_kill_old_fatal(kill_ok) ==
    /\ start_pc = "kill_old"
    /\ proxy_process' = None
    /\ children' = IF proxy_process = None THEN children
                   ELSE Killed(children, proxy_process[1], kill_ok)
    /\ IF proxy_process # None /\ ~kill_ok
       THEN ret' = Err("start_proxy", "Failed to kill process") /\ start_pc' = "idle"
       ELSE ret' = ret /\ start_pc' = "spawn"
    /\ last' = [op |-> "start_kill_old", arg |-> <<kill_ok>>]
    /\ emitted' = <<>>
    /\ UNCHANGED <<proxy_status, log_watcher_running, config_port, watchers,
                   start_new, start_port, stop_pc, stop_new>>

\* lines 799-805: take the tracked child and kill it, ignoring the outcome
start_kill_old(kill_ok) ==
    /\ start_pc = "kill_old"
    /\ proxy_process' = None
    /\ children' = IF proxy_process = None THEN children
                   ELSE Killed(children, proxy_process[1], kill_ok)
    /\ start_pc' = "spawn"
    /\ last' = [op |-> "start_kill_old", arg |-> <<kill_ok>>]
    /\ emitted' = <<>>
    /\ UNCHANGED <<ret, proxy_status, log_watcher_running, config_port, watchers,
                   start_new, start_port, stop_pc, stop_new>>

\* lines 807-1147: a variant that spawns the sidecar although the configuration was
\* not written
start_spawn_unwritten(reclaimed, write_ok, spawn_ok) ==
    /\ start_pc = "spawn"
    /\ LET swept == [c \in 1..Len(children) |->
                        IF c \in reclaimed /\ children[c] = "alive"
                        THEN "terminated" ELSE children[c]]
       IN  IF spawn_ok
           THEN /\ children' = Append(swept, "alive")
                /\ start_pc' = "store_child"
                /\ ret' = ret
           ELSE /\ children' = swept
                /\ start_pc' = "idle"
                /\ ret' = Err("start_proxy", "Failed to spawn sidecar")
    /\ last' = [op |-> "start_spawn", arg |-> <<write_ok, spawn_ok>>]
    /\ emitted' = <<>>
    /\ UNCHANGED <<proxy_status, proxy_process, log_watcher_running, config_port, watchers,
                   start_new, start_port, stop_pc, stop_new>>

\* lines 807-1147: kill whatever listens on the port (best effort: `reclaimed` is the
\* set of live sidecars it ends), create the directory and write proxy-config.yaml,
\* spawn the sidecar
start_spawn(reclaimed, write_ok, spawn_ok) ==
    /\ start_pc = "spawn"
    /\ LET swept == [c \in 1..Len(children) |->
                        IF c \in reclaimed /\ children[c] = "alive"
                        THEN "terminated" ELSE children[c]]
       IN  IF write_ok /\ spawn_ok
           THEN /\ children' = Append(swept, "alive")
                /\ start_pc' = "store_child"
                /\ ret' = ret
           ELSE /\ children' = swept
                /\ start_pc' = "idle"
                /\ ret' = Err("start_proxy", IF write_ok THEN "Failed to spawn sidecar" ELSE "write failed")
    /\ last' = [op |-> "start_spawn", arg |-> <<write_ok, spawn_ok>>]
    /\ emitted' = <<>>
    /\ UNCHANGED <<proxy_status, proxy_process, log_watcher_running, config_port, watchers,
                   start_new, start_port, stop_pc, stop_new>>

\* lines 1149-1206: store the child (the last one spawned); the consumer task is
\* launched, the settle delay and the management calls follow, their outcome
\* (sync_ok) ignored
start_store_child(sync_ok) ==
    /\ start_pc = "store_child"
    /\ proxy_process' = Some(Len(children))
    /\ start_pc' = "signal_stop"
    /\ last' = [op |-> "start_store_child", arg |-> <<sync_ok>>]
    /\ emitted' = <<>>
    /\ UNCHANGED <<ret, proxy_status, log_watcher_running, config_port, children, watchers,
                   start_new, start_port, stop_pc, stop_new>>

\* line 1215: signal any existing watcher to stop
start_signal_stop ==
    /\ start_pc = "signal_stop"
    /\ log_watcher_running' = FALSE
    /\ start_pc' = "start_watcher"
    /\ last' = Step("start_signal_stop")
    /\ emitted' = <<>>
    /\ UNCHANGED <<ret, proxy_status, proxy_process, config_port, children, watchers,
                   start_new, start_port, stop_pc, stop_new>>

\* lines 1216-1220: after 100 ms set the flag again and start a new watcher thread
start_watcher ==
    /\ start_pc = "start_watcher"
    /\ log_watcher_running' = TRUE
    /\ watchers' = Append(watchers, "waiting")
    /\ start_pc' = "update_status"
    /\ last' = Step("start_watcher")
    /\ emitted' = <<>>
    /\ UNCHANGED <<ret, proxy_status, proxy_process, config_port, children,
                   start_new, start_port, stop_pc, stop_new>>

\* lines 1237-1244
start_update_status ==
    /\ start_pc = "update_status"
    /\ proxy_status' = [running |-> TRUE, port |-> start_port,
                        endpoint |-> Endpoint(start_port)]
    /\ start_new' = proxy_status'
    /\ start_pc' = "emit"
    /\ last' = Step("start_update_status")
    /\ emitted' = <<>>
    /\ UNCHANGED <<ret, proxy_process, log_watcher_running, config_port, children, watchers,
                   start_port, stop_pc, stop_new>>

\* lines 1246-1249
start_emit ==
    /\ start_pc = "emit"
    /\ emitted' = <<StatusChanged(start_new)>>
    /\ ret' = Ok("start_proxy", start_new)
    /\ start_pc' = "idle"
    /\ last' = Step("start_emit")
    /\ UNCHANGED <<proxy_status, proxy_process, log_watcher_running, config_port, children,
                   watchers, start_new, start_port, stop_pc, stop_new>>

\* lines 1257-1263: a variant that goes on to stop although nothing is running
stop_check_always ==
    /\ stop_pc = "idle"
    /\ stop_pc' = "signal"
    /\ last' = Step("stop_check")
    /\ emitted' = <<>>
    /\ UNCHANGED <<ret, proxy_status, proxy_process, log_watcher_running, config_port,
                   children, watchers, start_pc, start_new, start_port, stop_new>>

\* lines 1257-1263: return the tracked status if it does not show running
stop_check ==
    /\ stop_pc = "idle"
    /\ IF ~proxy_status.running
       THEN /\ ret' = Ok("stop_proxy", proxy_status)
            /\ stop_pc' = "idle"
       ELSE /\ ret' = ret
            /\ stop_pc' = "signal"
    /\ last' = Step("stop_check")
    /\ emitted' = <<>>
    /\ UNCHANGED <<proxy_status, proxy_process, log_watcher_running, config_port, children,
                   watchers, start_pc, start_new, start_port, stop_new>>

\* line 1266: a variant that leaves the watcher's flag alone
stop_signal_skipped ==
    /\ stop_pc = "signal"
    /\ stop_pc' = "kill"
    /\ last' = Step("stop_signal")
    /\ emitted' = <<>>
    /\ UNCHANGED <<ret, proxy_status, proxy_process, log_watcher_running, config_port,
                   children, watchers, start_pc, start_new, start_port, stop_new>>

\* line 1266: stop the log watcher
stop_signal ==
    /\ stop_pc = "signal"
    /\ log_watcher_running' = FALSE
    /\ stop_pc' = "kill"
    /\ last' = Step("stop_signal")
    /\ emitted' = <<>>
    /\ UNCHANGED <<ret, proxy_status, proxy_process, config_port, children, watchers,
                   start_pc, start_new, start_port, stop_new>>

\* lines 1268-1274: a variant that ignores a failed kill, as start_proxy does
stop_kill_ignored(kill_ok) ==
    /\ stop_pc = "kill"
    /\ proxy_process' = None
    /\ children' = IF proxy_process = None THEN children
                   ELSE Killed(children, proxy_process[1], kill_ok)
    /\ ret' = ret
    /\ stop_pc' = "update_status"
    /\ last' = [op |-> "stop_kill", arg |-> <<kill_ok>>]
    /\ emitted' = <<>>
    /\ UNCHANGED <<proxy_status, log_watcher_running, config_port, watchers,
                   start_pc, start_new, start_port, stop_new>>

\* lines 1268-1274: take the tracked child and kill it; a failed kill is returned
stop_kill(kill_ok) ==
    /\ stop_pc = "kill"
    /\ proxy_process' = None
    /\ IF proxy_process = None
       THEN /\ children' = children
            /\ ret' = ret
            /\ stop_pc' = "update_status"
       ELSE /\ children' = Killed(children, proxy_process[1], kill_ok)
            /\ IF kill_ok
               THEN ret' = ret /\ stop_pc' = "update_status"
               ELSE ret' = Err("stop_proxy", "Failed to kill process") /\ stop_pc' = "idle"
    /\ last' = [op |-> "stop_kill", arg |-> <<kill_ok>>]
    /\ emitted' = <<>>
    /\ UNCHANGED <<proxy_status, log_watcher_running, config_port, watchers,
                   start_pc, start_new, start_port, stop_new>>

\* lines 1276-1281
stop_update_status ==
    /\ stop_pc = "update_status"
    /\ proxy_status' = [proxy_status EXCEPT !.running = FALSE]
    /\ stop_new' = proxy_status'
    /\ stop_pc' = "emit"
    /\ last' = Step("stop_update_status")
    /\ emitted' = <<>>
    /\ UNCHANGED <<ret, proxy_process, log_watcher_running, config_port, children, watchers,
                   start_pc, start_new, start_port>>

\* lines 1283-1286
stop_emit ==
    /\ stop_pc = "emit"
    /\ emitted' = <<StatusChanged(stop_new)>>
    /\ ret' = Ok("stop_proxy", stop_new)
    /\ stop_pc' = "idle"
    /\ last' = Step("stop_emit")
    /\ UNCHANGED <<proxy_status, proxy_process, log_watcher_running, config_port, children,
                   watchers, start_pc, start_new, start_port, stop_new>>

\* the sidecar exits by itself: its Terminated event is queued for the consumer
child_exit(c) ==
    /\ c \in 1..Len(children)
    /\ children[c] = "alive"
    /\ children' = [children EXCEPT ![c] = "terminated"]
    /\ last' = [op |-> "child_exit", arg |-> <<c>>]
    /\ emitted' = <<>>
    /\ UNCHANGED <<ret, proxy_status, proxy_process, log_watcher_running, config_port,
                   watchers, start_pc, start_new, start_port, stop_pc, stop_new>>

\* lines 1170-1179: the consumer of child c receives Terminated and ends
consumer_terminated(c) ==
    /\ c \in 1..Len(children)
    /\ children[c] = "terminated"
    /\ children' = [children EXCEPT ![c] = "reaped"]
    /\ proxy_status' = [proxy_status EXCEPT !.running = FALSE]
    /\ emitted' = <<StatusChanged(proxy_status')>>
    /\ last' = [op |-> "consumer_terminated", arg |-> <<c>>]
    /\ UNCHANGED <<ret, proxy_process, log_watcher_running, config_port, watchers,
                   start_pc, start_new, start_port, stop_pc, stop_new>>

\* the mutex whose guard is alive from the first to the last statement of a step
held_lock(op) ==
    IF op \in {"start_kill_old", "stop_kill"} THEN "proxy_process"
    ELSE IF op \in {"start_check", "start_update_status", "stop_check",
                    "stop_update_status", "consumer_terminated"} THEN "proxy_status"
    ELSE "none"

\* lines 802-804 and 1270-1272: the step calls child.kill(), which it does when a child
\* is tracked
kills_child(op, process) ==
    op \in {"start_kill_old", "stop_kill"} /\ process # None

\* save_config (lines 2576-2580) as far as the port goes
save_config(port) ==
    /\ config_port # port
    /\ config_port' = port
    /\ last' = [op |-> "save_config", arg |-> <<port>>]
    /\ emitted' = <<>>
    /\ UNCHANGED <<ret, proxy_status, proxy_process, log_watcher_running, children,
                   watchers, start_pc, start_new, start_port, stop_pc, stop_new>>

\* a watcher thread of start_log_watcher, seen from the supervisor:
\* lines 686-717: the log file appears, or the thread gives up after 30 attempts
watcher_opens(w, found) ==
    /\ w \in 1..Len(watchers)
    /\ watchers[w] = "waiting"
    /\ watchers' = [watchers EXCEPT ![w] = IF found THEN "loop" ELSE "stopped"]
    /\ last' = [op |-> "watcher_opens", arg |-> <<w, found>>]
    /\ emitted' = <<>>
    /\ UNCHANGED <<ret, proxy_status, proxy_process, log_watcher_running, config_port,
                   children, start_pc, start_new, start_port, stop_pc, stop_new>>

\* line 720: the loop condition
watcher_loop(w) ==
    /\ w \in 1..Len(watchers)
    /\ watchers[w] = "loop"
    /\ watchers' = [watchers EXCEPT ![w] = IF log_watcher_running THEN "polling" ELSE "stopped"]
    /\ last' = [op |-> "watcher_loop", arg |-> <<w>>]
    /\ emitted' = <<>>
    /\ UNCHANGED <<ret, proxy_status, proxy_process, log_watcher_running, config_port,
                   children, start_pc, start_new, start_port, stop_pc, stop_new>>

\* lines 721-771: one iteration (sleep, compare sizes, read the new lines)
watcher_polls(w) ==
    /\ w \in 1..Len(watchers)
    /\ watchers[w] = "polling"
    /\ watchers' = [watchers EXCEPT ![w] = "loop"]
    /\ last' = [op |-> "watcher_polls", arg |-> <<w>>]
    /\ emitted' = <<>>
    /\ UNCHANGED <<ret, proxy_status, proxy_process, log_watcher_running, config_port,
                   children, start_pc, start_new, start_port, stop_pc, stop_new>>

(***************************************************************************)
(* parse_gin_log_line and its helpers. A text is the sequence of its       *)
(* tokens: the separators "/", ":", "?" and "-" are tokens of their own    *)
(* and what lies between them is a word, so that                           *)
(* "/v1beta/models/gemini-pro:generateContent" is                          *)
(* <<"/", "v1beta", "/", "models", "/", "gemini", "-", "pro", ":",         *)
(*   "generateContent">>. A log line is a record of what the function      *)
(* looks at:                                                               *)
(*   marker   the line holds "[GIN]"                                       *)
(*   grammar  GIN_REGEX matches the line                                   *)
(*   secs     the date and time as seconds (0: not a calendar date)        *)
(*   local    how the local time zone maps that wall-clock time: "single", *)
(*            "ambiguous" (clocks set back) or "none" (clocks set forward) *)
(*   status   the digits of the status column                              *)
(*   duration [whole, frac, unit]: "6.656s" is [6, <<656>>, "s"]           *)
(*   method, path, model (Option, the token after "model=")                *)
(*   part     "whole" for a line with its newline; what a writer that      *)
(*            writes a line in two pieces leaves in the file is a "head"   *)
(*            (the text up to the closing quote of the path, no newline)   *)
(*            and later a "tail" (the rest of the line and the newline)    *)
(***************************************************************************)
\* text.contains(kws) where kws is a sequence of tokens: consecutive tokens match
contains_seq(text, kws) ==
    \E i \in 1..Len(text) :
        /\ i + Len(kws) - 1 <= Len(text)
        /\ \A j \in 1..Len(kws) : text[i + j - 1] = kws[j]

\* the index of the first token of the first occurrence of kws in text, 0 if none
find(text, kws) ==
    LET at == {i \in 1..Len(text) :
                  /\ i + Len(kws) - 1 <= Len(text)
                  /\ \A j \in 1..Len(kws) : text[i + j - 1] = kws[j]}
    IN  IF at = {} THEN 0 ELSE CHOOSE i \in at : \A j \in at : i <= j

\* the string that a sequence of tokens spells
RECURSIVE Spell(_)
Spell(tokens) ==
    IF tokens = <<>> THEN "" ELSE Head(tokens) \o Spell(Tail(tokens))

\* lines 590-597
DeniedParts ==
    {<<"/", "v0", "/", "management", "/">>, <<"/", "v1", "/", "models">>,
     <<"?", "uploadThread">>, <<"?", "getCreditsByRequestId">>,
     <<"?", "threadDisplayCostInfo">>, <<"/", "api", "/", "internal">>,
     <<"/", "api", "/", "telemetry">>, <<"/", "api", "/", "otel">>}

\* lines 602-607
TrackableParts ==
    {<<"/", "chat", "/", "completions">>, <<"/", "v1", "/", "messages">>,
     <<"/", "completions">>, <<"/", "v1beta">>, <<":", "generateContent">>,
     <<":", "streamGenerateContent">>}

\* the characters of the line that the substring tests can meet: the quoted path and the
\* model token
LineText(line) ==
    <<"\"">> \o line.path \o <<"\"">>
        \o (IF line.model # None THEN <<" | model=">> \o line.model[1] ELSE <<>>)

\* lines 487-516
detect_provider_from_model(model) ==
    IF contains(model, "claude") \/ contains(model, "sonnet")
       \/ contains(model, "opus") \/ contains(model, "haiku") THEN "claude"
    ELSE IF contains(model, "gpt") \/ contains(model, "codex")
            \/ (model # <<>> /\ model[1] \in {"o3", "o1"}) THEN "openai"
    ELSE IF contains(model, "gemini") THEN "gemini"
    ELSE IF contains(model, "qwen") THEN "qwen"
    ELSE IF contains(model, "deepseek") THEN "deepseek"
    ELSE IF contains(model, "glm") THEN "zhipu"
    ELSE IF contains(model, "antigravity") THEN "antigravity"
    ELSE "unknown"

\* lines 522-552: the segment after the first segment "provider", else what the shape
\* of the path tells
detect_provider_from_path(path) ==
    LET at == {i \in 1..Len(path) :
                  /\ path[i] = "provider"
                  /\ i > 1 => path[i - 1] = "/"
                  /\ i < Len(path) => path[i + 1] = "/"}
        idx == CHOOSE i \in at : \A j \in at : i <= j
        rest == SubSeq(path, idx + 2, Len(path))
        stop == find(rest, <<"/">>)
        provider == IF stop = 0 THEN rest ELSE SubSeq(rest, 1, stop - 1)
    IN  IF contains_seq(path, <<"/", "api", "/", "provider", "/">>) /\ idx < Len(path)
        THEN Some(IF provider = <<"anthropic">> THEN "claude"
                  ELSE IF provider = <<"openai">> THEN "openai"
                  ELSE IF provider = <<"google">> THEN "gemini"
                  ELSE Spell(provider))
        ELSE IF contains_seq(path, <<"/", "messages">>) THEN Some("claude")
        ELSE IF contains_seq(path, <<"/", "chat", "/", "completions">>)
             THEN Some("openai-compat")
        ELSE IF \/ contains_seq(path, <<"/", "v1beta">>)
                \/ contains_seq(path, <<":", "generateContent">>)
                \/ contains_seq(path, <<":", "streamGenerateContent">>) THEN Some("gemini")
        ELSE None

\* a variant that takes everything after the first "/models/"
extract_model_from_path_toEnd(path) ==
    LET idx == find(path, <<"/", "models", "/">>)
        model == SubSeq(path, idx + 3, Len(path))
    IN  IF idx # 0 /\ model # <<>> THEN Some(model) ELSE None

\* lines 557-579: what follows the first "/models/", up to the first ':' if there is
\* one, else up to the first '/', else to the end
extract_model_from_path(path) ==
    LET idx == find(path, <<"/", "models", "/">>)
        model_part == SubSeq(path, idx + 3, Len(path))
        colon == find(model_part, <<":">>)
        slash == find(model_part, <<"/">>)
        end_idx == IF colon # 0 THEN colon
                   ELSE IF slash # 0 THEN slash
                   ELSE Len(model_part) + 1
        model == SubSeq(model_part, 1, end_idx - 1)
    IN  IF idx # 0 /\ model # <<>> THEN Some(model) ELSE None

\* the duration tokens w.fff, w in 0..MaxWholeSecs, whose nearest double multiplied by
\* 1000.0 lies below the whole number w * 1000 + fff
MaxWholeSecs == 7
F64ProductBelow ==
    {<<1, 1>>, <<1, 3>>, <<1, 5>>, <<1, 7>>, <<1, 9>>, <<1, 11>>, <<1, 13>>, <<1, 15>>,
     <<1, 17>>, <<1, 19>>, <<1, 21>>, <<1, 23>>, <<2, 2>>, <<2, 6>>, <<2, 10>>,
     <<2, 14>>, <<2, 18>>, <<2, 22>>, <<2, 26>>, <<2, 30>>, <<2, 34>>, <<2, 38>>,
     <<2, 42>>, <<2, 46>>, <<4, 4>>, <<4, 7>>, <<4, 12>>, <<4, 15>>, <<4, 20>>,
     <<4, 23>>, <<4, 28>>, <<4, 31>>, <<4, 36>>, <<4, 39>>, <<4, 44>>, <<4, 47>>,
     <<4, 52>>, <<4, 55>>, <<4, 60>>, <<4, 63>>, <<4, 68>>, <<4, 71>>, <<4, 76>>,
     <<4, 79>>, <<4, 84>>, <<4, 87>>, <<4, 92>>, <<4, 95>>}

\* (secs * 1000.0) as u64 for the token w.fff or w
secs_to_ms(whole, frac) ==
    IF frac = None THEN whole * 1000
    ELSE IF <<whole, frac[1]>> \in F64ProductBelow THEN whole * 1000 + frac[1] - 1
    ELSE whole * 1000 + frac[1]

\* lines 640-648: "ms" takes an unsigned integer; any other token ending in 's' takes a
\* float, which "65.5us" and "500ns" without their 's' are not
duration_ms(d) ==
    IF d.unit = "ms" THEN (IF d.frac = None THEN d.whole ELSE 0)
    ELSE IF d.unit \in {"s", "us", "ns"}
         THEN (IF d.unit = "s" THEN secs_to_ms(d.whole, d.frac) ELSE 0)
    ELSE 0

\* the checks of lines 585-626 that end in "return None"
parse_rejects(line) ==
    \/ ~line.marker
    \/ \E d \in DeniedParts : contains_seq(LineText(line), d)
    \/ ~\E t \in TrackableParts : contains_seq(LineText(line), t)
    \/ ~line.grammar
    \/ line.status > 65535

\* line 633: and_local_timezone(Local).unwrap() unwinds unless the wall-clock time names
\* one instant
parse_panics(line) ==
    ~parse_rejects(line) /\ line.secs # 0 /\ line.local # "single"

\* lines 583-676: None, or Some(request); the caller's counter moves on in the second case
parse_gin_log_line(line, counter, now) ==
    IF parse_rejects(line) THEN None
    ELSE
      LET timestamp == IF line.secs # 0 THEN line.secs * 1000 ELSE now
          model == IF line.model # None THEN line.model[1]
                   ELSE unwrap_or(extract_model_from_path(line.path), <<"unknown">>)
          from_path == detect_provider_from_path(line.path)
          provider == IF from_path # None THEN from_path[1]
                      ELSE detect_provider_from_model(model)
      IN  Some([id |-> <<timestamp, counter>>,
                timestamp |-> timestamp,
                provider |-> provider,
                model |-> model,
                method |-> line.method,
                path |-> line.path,
                status |-> line.status,
                duration_ms |-> duration_ms(line.duration),
                tokens_in |-> None,
                tokens_out |-> None])

(***************************************************************************)
(* The log watcher thread of start_log_watcher, following logs/main.log,   *)
(* and what happens to that file. Sizes and offsets count lines. A file    *)
(* that was renamed away stays readable through a handle opened before.    *)
(***************************************************************************)
MaxAttempts == 30
\* lines held by all the log files together, rotations of main.log, and the width of
\* the id counter
MaxLines == 3
MaxRotations == 1
CounterModulus == 2

MessagesPath == <<"/", "api", "/", "provider", "/", "anthropic", "/", "v1", "/", "messages">>
ChatPath == <<"/", "v1", "/", "chat", "/", "completions">>
ManagementPath == <<"/", "v0", "/", "management", "/", "usage">>

GinLine(secs, path) ==
    [part |-> "whole", marker |-> TRUE, grammar |-> TRUE, secs |-> secs,
     local |-> "single", status |-> 200,
     duration |-> [whole |-> 6, frac |-> Some(656), unit |-> "s"],
     method |-> "POST", path |-> path, model |-> None]

\* what the sidecar writes: a request, and a management call that is not tracked
LogLines == {GinLine(1, MessagesPath), GinLine(1, ManagementPath)}
\* lines 635-638: the clock reading used when the date does not parse
NowMs == 9000

RequestLogEvent(request_log) == [event |-> "request-log", payload |-> request_log]

tailFrame == <<ret, hist_base, appended, ops, add_call, persist_call, proxy_status, proxy_process, config_port, children,
               watchers, start_pc, start_new, start_port, stop_pc, stop_new>>

\* lines 686-696: a variant that starts the wait again instead of giving up
watcher_wait_again(open_ok) ==
    /\ tail_pc = "wait_file"
    /\ IF log_path_file = 0
       THEN /\ IF attempts < MaxAttempts
               THEN attempts' = attempts + 1 /\ tail_pc' = "wait_file"
               ELSE attempts' = 0 /\ tail_pc' = "wait_file"
            /\ UNCHANGED <<reader, last_pos, old_lines>>
       ELSE /\ attempts' = 0
            /\ IF open_ok
               THEN /\ reader' = [file |-> log_path_file, pos |-> Len(files[log_path_file])]
                    /\ last_pos' = Len(files[log_path_file])
                    /\ old_lines' = {<<log_path_file, k>> : k \in 1..Len(files[log_path_file])}
                    /\ tail_pc' = "loop"
               ELSE /\ UNCHANGED <<reader, last_pos, old_lines>>
                    /\ tail_pc' = "done"
    /\ last' = [op |-> "watcher_wait", arg |-> <<open_ok>>]
    /\ emitted' = <<>>
    /\ UNCHANGED <<history_file, log_watcher_running, log_path_file, files,
                   request_counter, rotations, rotated, seen>>

\* lines 698-715: a variant that reads the file from its start
watcher_wait_replay(open_ok) ==
    /\ tail_pc = "wait_file"
    /\ IF log_path_file = 0
       THEN /\ IF attempts < MaxAttempts
               THEN attempts' = attempts + 1 /\ tail_pc' = "wait_file"
               ELSE attempts' = attempts /\ tail_pc' = "done"
            /\ UNCHANGED <<reader, last_pos, old_lines>>
       ELSE /\ attempts' = 0
            /\ IF open_ok
               THEN /\ reader' = [file |-> log_path_file, pos |-> 0]
                    /\ last_pos' = 0
                    /\ old_lines' = {<<log_path_file, k>> : k \in 1..Len(files[log_path_file])}
                    /\ tail_pc' = "loop"
               ELSE /\ UNCHANGED <<reader, last_pos, old_lines>>
                    /\ tail_pc' = "done"
    /\ last' = [op |-> "watcher_wait", arg |-> <<open_ok>>]
    /\ emitted' = <<>>
    /\ UNCHANGED <<history_file, log_watcher_running, log_path_file, files,
                   request_counter, rotations, rotated, seen>>

\* lines 686-717: wait for the file, open it, seek to its end (attempts is not used
\* once the file is there and is left at 0 then)
watcher_wait(open_ok) ==
    /\ tail_pc = "wait_file"
    /\ IF log_path_file = 0
       THEN /\ IF attempts < MaxAttempts
               THEN attempts' = attempts + 1 /\ tail_pc' = "wait_file"
               ELSE attempts' = attempts /\ tail_pc' = "done"
            /\ UNCHANGED <<reader, last_pos, old_lines>>
       ELSE /\ attempts' = 0
            /\ IF open_ok
               THEN /\ reader' = [file |-> log_path_file, pos |-> Len(files[log_path_file])]
                    /\ last_pos' = Len(files[log_path_file])
                    /\ old_lines' = {<<log_path_file, k>> : k \in 1..Len(files[log_path_file])}
                    /\ tail_pc' = "loop"
               ELSE /\ UNCHANGED <<reader, last_pos, old_lines>>
                    /\ tail_pc' = "done"
    /\ last' = [op |-> "watcher_wait", arg |-> <<open_ok>>]
    /\ emitted' = <<>>
    /\ UNCHANGED <<history_file, log_watcher_running, log_path_file, files,
                   request_counter, rotations, rotated, seen>>

\* line 720
watcher_check ==
    /\ tail_pc = "loop"
    /\ tail_pc' = IF log_watcher_running THEN "poll" ELSE "done"
    /\ last' = Step("watcher_check")
    /\ emitted' = <<>>
    /\ UNCHANGED <<history_file, log_watcher_running, log_path_file, files, attempts,
                   reader, last_pos, request_counter, rotations, rotated, seen, old_lines>>

\* lines 721-738: sleep, then compare the size of main.log with last_pos
watcher_poll ==
    /\ tail_pc = "poll"
    /\ LET current_size == IF log_path_file # 0 THEN Len(files[log_path_file]) ELSE last_pos
       IN  IF current_size <= last_pos
           THEN /\ IF current_size < last_pos
                   THEN /\ last_pos' = 0
                        /\ reader' = [reader EXCEPT !.pos = 0]
                        /\ rotated' = TRUE
                        /\ old_lines' = {}
                   ELSE UNCHANGED <<last_pos, reader, rotated, old_lines>>
                /\ tail_pc' = "loop"
           ELSE /\ UNCHANGED <<last_pos, reader, rotated, old_lines>>
                /\ tail_pc' = "read"
    /\ last' = Step("watcher_poll")
    /\ emitted' = <<>>
    /\ UNCHANGED <<history_file, log_watcher_running, log_path_file, files, attempts,
                   request_counter, rotations, seen>>

\* a line cut after the closing quote of its path: GIN_REGEX matches it as it matches a
\* line without a model token
HeadOf(line) == [line EXCEPT !.part = "head", !.model = None]
\* the rest of that line: no "[GIN]" in it
TailOf(line) == [line EXCEPT !.part = "tail", !.marker = FALSE, !.grammar = FALSE]
WholeOf(tail) == [tail EXCEPT !.part = "whole", !.marker = TRUE, !.grammar = TRUE]

\* line 742, reader.read_line: the text from the position to the next newline or, when
\* there is none, to the end of the file, and the number of pieces it spans
read_line(content, pos) ==
    IF content[pos + 1].part = "head" /\ pos + 2 <= Len(content)
    THEN [line |-> WholeOf(content[pos + 2]), pieces |-> 2]
    ELSE [line |-> content[pos + 1], pieces |-> 1]

\* lines 741-771: read one more line from the reader, parse it, emit and persist the
\* request; at the end of the file remember the position. A panic of the parser ends
\* the thread.
watcher_read(write_ok) ==
    /\ tail_pc = "read"
    /\ LET content == files[reader.file]
       IN  IF reader.pos < Len(content)
           THEN LET read == read_line(content, reader.pos)
                    line == read.line
                    request_log == parse_gin_log_line(line, request_counter, NowMs)
                IN  /\ reader' = [reader EXCEPT !.pos = @ + read.pieces]
                    /\ seen' = seen \cup {<<reader.file, reader.pos + k>> :
                                             k \in 1..read.pieces}
                    /\ IF parse_panics(line)
                       THEN /\ emitted' = <<>>
                            /\ UNCHANGED <<request_counter, history_file>>
                       ELSE IF request_log # None
                       THEN /\ request_counter' = (request_counter + 1) % CounterModulus
                            /\ emitted' = <<RequestLogEvent(request_log[1])>>
                            /\ history_file' =
                                   watcher_persist(history_file, request_log[1], write_ok).file
                       ELSE /\ emitted' = <<>>
                            /\ UNCHANGED <<request_counter, history_file>>
                    /\ UNCHANGED last_pos
                    /\ tail_pc' = IF parse_panics(line) THEN "panicked" ELSE "read"
           ELSE /\ last_pos' = reader.pos
                /\ tail_pc' = "loop"
                /\ emitted' = <<>>
                /\ UNCHANGED <<reader, seen, request_counter, history_file>>
    /\ last' = [op |-> "watcher_read", arg |-> <<write_ok>>]
    /\ UNCHANGED <<log_watcher_running, log_path_file, files, attempts, rotations, rotated,
                   old_lines>>

RECURSIVE TotalLines(_)
TotalLines(fs) == IF fs = <<>> THEN 0 ELSE Len(Head(fs)) + TotalLines(Tail(fs))

\* the sidecar appends a line to main.log, creating the file if need be
writer_append(line) ==
    /\ IF log_path_file = 0
       THEN /\ files' = <<<<line>>>>
            /\ log_path_file' = 1
       ELSE /\ TotalLines(files) < MaxLines
            /\ LET content == files[log_path_file]
               IN  IF content = <<>> THEN TRUE ELSE content[Len(content)].part # "head"
            /\ files' = [files EXCEPT ![log_path_file] = Append(@, line)]
            /\ log_path_file' = log_path_file
    /\ last' = Step("writer_append")
    /\ emitted' = <<>>
    /\ UNCHANGED <<history_file, log_watcher_running, tail_pc, attempts, reader, last_pos,
                   request_counter, rotations, rotated, seen, old_lines>>

\* the sidecar's write of a line reaches main.log in two pieces: first the head
writer_append_head(line) ==
    /\ log_path_file # 0
    /\ TotalLines(files) + 1 < MaxLines
    /\ LET content == files[log_path_file]
       IN  IF content = <<>> THEN TRUE ELSE content[Len(content)].part # "head"
    /\ files' = [files EXCEPT ![log_path_file] = Append(@, HeadOf(line))]
    /\ last' = [op |-> "writer_append_head", arg |-> <<line>>]
    /\ emitted' = <<>>
    /\ UNCHANGED <<history_file, log_watcher_running, log_path_file, tail_pc, attempts,
                   reader, last_pos, request_counter, rotations, rotated, seen, old_lines>>

\* then the rest of the line that was begun
writer_append_tail(line) ==
    /\ log_path_file # 0
    /\ LET content == files[log_path_file]
       IN  /\ content # <<>>
           /\ content[Len(content)] = HeadOf(line)
    /\ files' = [files EXCEPT ![log_path_file] = Append(@, TailOf(line))]
    /\ last' = [op |-> "writer_append_tail", arg |-> <<line>>]
    /\ emitted' = <<>>
    /\ UNCHANGED <<history_file, log_watcher_running, log_path_file, tail_pc, attempts,
                   reader, last_pos, request_counter, rotations, rotated, seen, old_lines>>

\* rotation in place: main.log is truncated to nothing
rotate_truncate ==
    /\ log_path_file # 0
    /\ files[log_path_file] # <<>>
    /\ rotations < MaxRotations
    /\ files' = [files EXCEPT ![log_path_file] = <<>>]
    /\ rotations' = rotations + 1
    /\ rotated' = FALSE
    /\ seen' = {p \in seen : p[1] # log_path_file}
    /\ old_lines' = {p \in old_lines : p[1] # log_path_file}
    /\ last' = Step("rotate_truncate")
    /\ emitted' = <<>>
    /\ UNCHANGED <<history_file, log_watcher_running, log_path_file, tail_pc, attempts,
                   reader, last_pos, request_counter>>

\* rotation by renaming: main.log is moved away and a new, empty main.log created
rotate_replace ==
    /\ log_path_file # 0
    /\ files[log_path_file] # <<>>
    /\ rotations < MaxRotations
    /\ files' = Append(files, <<>>)
    /\ log_path_file' = Len(files) + 1
    /\ rotations' = rotations + 1
    /\ rotated' = FALSE
    /\ seen' = seen
    /\ old_lines' = old_lines
    /\ last' = Step("rotate_replace")
    /\ emitted' = <<>>
    /\ UNCHANGED <<history_file, log_watcher_running, tail_pc, attempts,
                   reader, last_pos, request_counter>>

\* line 1266 of stop_proxy, seen from the watcher
watcher_signalled ==
    /\ log_watcher_running
    /\ log_watcher_running' = FALSE
    /\ last' = Step("watcher_signalled")
    /\ emitted' = <<>>
    /\ UNCHANGED <<history_file, tailVars>>

(***************************************************************************)
(* The history commands as steps. The requests come from a small set that  *)
(* holds equal and different ids for equal and different (timestamp, path) *)
(* pairs, with and without token counts. history.json outlives the         *)
(* application: a run starts without the file or with the file a former    *)
(* run left, here one that the watcher filled to the retention bound.      *)
(***************************************************************************)
MaxOps == 2

HistRequest(ts, path, n, tokens) ==
    [id |-> <<ts, n>>, timestamp |-> ts, provider |-> "claude",
     model |-> <<"claude", "opus">>, method |-> "POST", path |-> path, status |-> 200,
     duration_ms |-> 0, tokens_in |-> tokens, tokens_out |-> tokens]

\* what the UI may pass to add_request_to_history
UiRequests ==
    {HistRequest(ts, path, n, tokens) :
        ts \in {1, 2}, path \in {MessagesPath, ChatPath}, n \in {0, MaxRequests},
        tokens \in {None, Some(1)}}

\* what the watcher may have parsed: no token counts
ParsedRequests == {r \in UiRequests : r.tokens_in = None}

UsageDetails ==
    {<<>>, <<[model |-> <<"claude", "opus">>, input |-> 1, output |-> 2]>>}

\* history.json after the watcher has persisted, starting without the file, the
\* requests of MaxRequests successive milliseconds (ids req_1_0, req_2_1, ...): each
\* watcher_persist of a new key appends at the end, and nothing is trimmed yet
FullHistoryFile ==
    [readable |-> TRUE,
     data |-> [RequestHistoryDefault EXCEPT !.requests =
                  [i \in 1..MaxRequests |-> HistRequest(i, MessagesPath, i - 1, None)]]]

\* history.json exists and holds text that does not parse as a RequestHistory (here
\* what is left of a full history)
CorruptHistoryFile == [readable |-> FALSE, data |-> FullHistoryFile.data]

hist_add_request(request, write_ok) ==
    /\ ops < MaxOps
    /\ LET r == add_request_to_history(history_file, request, write_ok)
       IN  /\ history_file' = r.file
           /\ ret' = IF r.ok THEN Ok("add_request_to_history", Unit)
                     ELSE Err("add_request_to_history", "write failed")
           /\ appended' = IF r.ok THEN Append(appended, request) ELSE appended
    /\ hist_base' = hist_base
    /\ last' = [op |-> "add_request_to_history", arg |-> <<request, write_ok>>]
    /\ ops' = ops + 1

hist_watcher_persist(request_log, write_ok) ==
    /\ ops < MaxOps
    /\ LET r == watcher_persist(history_file, request_log, write_ok)
       IN  /\ history_file' = r.file
           /\ appended' = IF r.ok THEN Append(appended, request_log) ELSE appended
    /\ hist_base' = hist_base
    /\ ret' = ret
    /\ last' = [op |-> "watcher_persist", arg |-> <<request_log, write_ok>>]
    /\ ops' = ops + 1

hist_clear(write_ok) ==
    /\ ops < MaxOps
    /\ LET r == clear_request_history(history_file, write_ok)
       IN  /\ history_file' = r.file
           /\ ret' = IF r.ok THEN Ok("clear_request_history", Unit)
                     ELSE Err("clear_request_history", "write failed")
           /\ appended' = IF r.ok THEN <<>> ELSE appended
           /\ hist_base' = IF r.ok THEN "empty" ELSE hist_base
    /\ last' = [op |-> "clear_request_history",
                arg |-> <<write_ok, Len(load_request_history(history_file).requests)>>]
    /\ ops' = ops + 1

hist_sync_usage(details, write_ok) ==
    /\ ops < MaxOps
    /\ LET r == sync_usage_from_proxy(history_file, details, write_ok)
       IN  /\ history_file' = r.file
           /\ ret' = IF r.ok THEN Ok("sync_usage_from_proxy", Unit)
                     ELSE Err("sync_usage_from_proxy", "write failed")
    /\ UNCHANGED <<appended, hist_base>>
    /\ last' = [op |-> "sync_usage_from_proxy", arg |-> <<details>>]
    /\ ops' = ops + 1

\* add_request_to_history and the watcher's persist as they run, in two steps each:
\* the load of history.json (lines 2153 and 748), then the update and the save of
\* what was loaded (lines 2155-2172 and 751-765). No lock is held in between.
add_request_load(request) ==
    /\ ops < MaxOps
    /\ add_call = None
    /\ add_call' = Some([loaded |-> history_file, request |-> request])
    /\ last' = [op |-> "add_request_load", arg |-> <<request>>]
    /\ ops' = ops + 1
    /\ UNCHANGED <<history_file, hist_base, appended, persist_call, ret>>

add_request_save(write_ok) ==
    /\ add_call # None
    /\ LET r == add_request_to_history(add_call[1].loaded, add_call[1].request, write_ok)
       IN  /\ history_file' = IF r.ok THEN r.file ELSE history_file
           /\ ret' = IF r.ok THEN Ok("add_request_to_history", Unit)
                     ELSE Err("add_request_to_history", "write failed")
           /\ appended' = IF r.ok THEN Append(appended, add_call[1].request) ELSE appended
    /\ add_call' = None
    /\ last' = [op |-> "add_request_save", arg |-> <<write_ok>>]
    /\ UNCHANGED <<hist_base, ops, persist_call>>

watcher_persist_load(request_log) ==
    /\ ops < MaxOps
    /\ persist_call = None
    /\ persist_call' = Some([loaded |-> history_file, request |-> request_log])
    /\ last' = [op |-> "watcher_persist_load", arg |-> <<request_log>>]
    /\ ops' = ops + 1
    /\ UNCHANGED <<history_file, hist_base, appended, add_call, ret>>

watcher_persist_save(write_ok) ==
    /\ persist_call # None
    /\ LET loaded == persist_call[1].loaded
           request_log == persist_call[1].request
           is_duplicate == KeyIn(request_log, load_request_history(loaded).requests)
           r == watcher_persist(loaded, request_log, write_ok)
       IN  /\ history_file' = IF ~is_duplicate /\ r.ok THEN r.file ELSE history_file
           /\ appended' = IF r.ok THEN Append(appended, request_log) ELSE appended
    /\ persist_call' = None
    /\ last' = [op |-> "watcher_persist_save", arg |-> <<write_ok>>]
    /\ UNCHANGED <<hist_base, ops, add_call, ret>>

(***************************************************************************)
(* Initial states and specifications                                       *)
(***************************************************************************)
InitHistVars ==
    /\ history_file = NoHistoryFile
    /\ hist_base = "empty"
    /\ appended = <<>>
    /\ ops = 0

InitShared ==
    /\ add_call = None
    /\ persist_call = None
    /\ ret = Ok("none", Unit)
    /\ last = Step("init")
    /\ emitted = <<>>

InitSupVars ==
    /\ proxy_status = ProxyStatusDefault
    /\ proxy_process = None
    /\ config_port = DefaultPort
    /\ children = <<>>
    /\ watchers = <<>>
    /\ start_pc = "idle"
    /\ start_new = ProxyStatusDefault
    /\ start_port = DefaultPort
    /\ stop_pc = "idle"
    /\ stop_new = ProxyStatusDefault

InitTailVars ==
    /\ log_path_file = 0
    /\ files = <<>>
    /\ tail_pc = "idle"
    /\ attempts = 0
    /\ reader = [file |-> 0, pos |-> 0]
    /\ last_pos = 0
    /\ request_counter = 0
    /\ rotations = 0
    /\ rotated = FALSE
    /\ seen = {}
    /\ old_lines = {}

\* ---- the history store
InitHist ==
    /\ history_file \in {NoHistoryFile, FullHistoryFile, CorruptHistoryFile}
    /\ hist_base = IF history_file = FullHistoryFile THEN "full"
                   ELSE IF history_file = CorruptHistoryFile THEN "corrupt"
                   ELSE "empty"
    /\ appended = <<>>
    /\ ops = 0
    /\ InitShared
    /\ log_watcher_running = FALSE
    /\ InitSupVars
    /\ InitTailVars

NextHist ==
    /\ \/ \E request \in UiRequests, write_ok \in BOOLEAN :
              hist_add_request(request, write_ok)
       \/ \E request_log \in ParsedRequests, write_ok \in BOOLEAN :
              hist_watcher_persist(request_log, write_ok)
       \/ \E write_ok \in BOOLEAN : hist_clear(write_ok)
       \/ \E details \in UsageDetails, write_ok \in BOOLEAN :
              hist_sync_usage(details, write_ok)
    /\ UNCHANGED <<callVars, supVars, tailVars>>

SpecHist == InitHist /\ [][NextHist]_vars

\* ---- a command and the watcher writing history.json at the same time
NextCalls ==
    /\ \/ \E request \in UiRequests : add_request_load(request)
       \/ \E write_ok \in BOOLEAN : add_request_save(write_ok)
       \/ \E request_log \in ParsedRequests : watcher_persist_load(request_log)
       \/ \E write_ok \in BOOLEAN : watcher_persist_save(write_ok)
    /\ UNCHANGED <<supVars, tailVars>>

SpecCalls == InitHist /\ [][NextCalls]_vars

\* ---- the supervisor
InitSup ==
    /\ InitHistVars
    /\ InitShared
    /\ log_watcher_running = FALSE
    /\ InitSupVars
    /\ InitTailVars

NextSup ==
    /\ \/ start_check
       \/ \E kill_ok \in BOOLEAN : start_kill_old(kill_ok)
       \/ \E reclaimed \in SUBSET (1..Len(children)), write_ok \in BOOLEAN,
             spawn_ok \in BOOLEAN :
              /\ spawn_ok => Len(children) < MaxChildren
              /\ start_spawn(reclaimed, write_ok, spawn_ok)
       \/ \E sync_ok \in BOOLEAN : start_store_child(sync_ok)
       \/ start_signal_stop
       \/ start_watcher
       \/ start_update_status
       \/ start_emit
       \/ stop_check
       \/ stop_signal
       \/ \E kill_ok \in BOOLEAN : stop_kill(kill_ok)
       \/ stop_update_status
       \/ stop_emit
       \/ \E c \in 1..Len(children) : child_exit(c)
       \/ \E c \in 1..Len(children) : consumer_terminated(c)
       \/ \E port \in Ports : save_config(port)
    /\ UNCHANGED <<histData, callVars, tailVars>>

Spec == InitSup /\ [][NextSup]_vars

\* ---- the supervisor together with the watcher threads it starts (the configuration
\* is written, the management calls answer, and the port reclaim finds nothing)
WatcherStep(w) ==
    \/ \E found \in BOOLEAN : watcher_opens(w, found)
    \/ watcher_loop(w)
    \/ watcher_polls(w)

NextWatch ==
    /\ \/ start_check
       \/ \E kill_ok \in BOOLEAN : start_kill_old(kill_ok)
       \/ \E spawn_ok \in BOOLEAN :
              /\ spawn_ok => Len(children) < MaxChildren
              /\ start_spawn({}, TRUE, spawn_ok)
       \/ start_store_child(TRUE)
       \/ start_signal_stop
       \/ start_watcher
       \/ start_update_status
       \/ start_emit
       \/ stop_check
       \/ stop_signal
       \/ \E kill_ok \in BOOLEAN : stop_kill(kill_ok)
       \/ stop_update_status
       \/ stop_emit
       \/ \E c \in 1..Len(children) : child_exit(c)
       \/ \E c \in 1..Len(children) : consumer_terminated(c)
       \/ \E w \in 1..Len(watchers) : WatcherStep(w)
    /\ UNCHANGED <<histData, callVars, tailVars>>

SpecWatch == InitSup /\ [][NextWatch]_vars

\* every watcher thread keeps being scheduled
FairSpecWatch ==
    SpecWatch /\ \A w \in 1..MaxChildren : WF_vars(WatcherStep(w) /\ UNCHANGED <<histData, callVars, tailVars>>)

\* ---- the log watcher: started by start_proxy with the flag set
InitTail ==
    /\ InitHistVars
    /\ InitShared
    /\ log_watcher_running = TRUE
    /\ InitSupVars
    /\ log_path_file = 0
    /\ files = <<>>
    /\ tail_pc = "wait_file"
    /\ attempts = 0
    /\ reader = [file |-> 0, pos |-> 0]
    /\ last_pos = 0
    /\ request_counter = 0
    /\ rotations = 0
    /\ rotated = FALSE
    /\ seen = {}
    /\ old_lines = {}

WatcherNext ==
    \/ \E open_ok \in BOOLEAN : watcher_wait(open_ok)
    \/ watcher_check
    \/ watcher_poll
    \/ \E write_ok \in BOOLEAN : watcher_read(write_ok)

NextTail ==
    /\ \/ WatcherNext
       \/ \E line \in LogLines : writer_append(line)
       \/ rotate_truncate
       \/ rotate_replace
       \/ watcher_signalled
    /\ UNCHANGED tailFrame

SpecTail == InitTail /\ [][NextTail]_vars

\* ---- parse_gin_log_line applied to one line after another
GeminiPath ==
    <<"/", "v1beta", "/", "models", "/", "gemini", "-", "pro", ":", "generateContent">>
CompletionsPath == <<"/", "v1", "/", "completions">>
EmbeddingsPath == <<"/", "v1", "/", "embeddings">>
ModelsPath == <<"/", "v1", "/", "models">>
GroqPath == <<"/", "api", "/", "provider", "/", "groq", "/", "v1", "/", "chat", "/",
              "completions">>
BareModelsPath == <<"/", "v1beta", "/", "models", "/">>

ParsePaths ==
    {MessagesPath, ChatPath, ManagementPath, GeminiPath, CompletionsPath, EmbeddingsPath,
     ModelsPath, GroqPath, BareModelsPath}

\* what may follow "model=": nothing, "claude-3-opus", "gpt-4o", "mystery",
\* "org/completions"
ParseModels ==
    {None, Some(<<"claude", "-", "3", "-", "opus">>), Some(<<"gpt", "-", "4o">>),
     Some(<<"mystery">>), Some(<<"org", "/", "completions">>)}

\* "65ms", "1.001ms", "6.656s", "1.001s", "65.656us", "6ns", "65" ...
ParseDurations ==
    {d \in [whole : {1, 6, 65}, frac : {None, Some(1), Some(656)},
            unit : {"ms", "s", "us", "ns", ""}] :
        (d.unit = "s" /\ d.frac # None) => d.whole <= MaxWholeSecs}

\* [GIN] 1970/01/01 - 00:00:01 | 200 | 6.656s | ::1 | POST "/api/provider/anthropic/v1/messages"
BaseLine == GinLine(1, MessagesPath)

ParseLines ==
    {[BaseLine EXCEPT !.path = p, !.model = m] : p \in ParsePaths, m \in ParseModels}
    \cup {[BaseLine EXCEPT !.duration = d] : d \in ParseDurations}
    \cup {[BaseLine EXCEPT !.status = st, !.method = me] :
             st \in {200, 404, 500, 70000}, me \in {"POST", "GET"}}
    \cup {[BaseLine EXCEPT !.secs = secs, !.local = l] :
             secs \in {0, 1, 2}, l \in {"single", "ambiguous", "none"}}
    \cup {[BaseLine EXCEPT !.marker = mg[1], !.grammar = mg[2], !.path = p] :
             mg \in {<<FALSE, FALSE>>, <<TRUE, FALSE>>}, p \in ParsePaths}

\* one call of parse_gin_log_line(line, &request_counter) and what it returns
parse_line(line) ==
    /\ ret' = IF parse_panics(line) THEN Err("parse_gin_log_line", "panic")
              ELSE Ok("parse_gin_log_line",
                      parse_gin_log_line(line, request_counter, NowMs))
    /\ request_counter' =
          IF ~parse_panics(line) /\ parse_gin_log_line(line, request_counter, NowMs) # None
          THEN (request_counter + 1) % CounterModulus
          ELSE request_counter
    /\ last' = [op |-> "parse_gin_log_line", arg |-> <<line, request_counter>>]
    /\ UNCHANGED <<histData, callVars, supVars>>
    /\ UNCHANGED <<log_path_file, files, tail_pc, attempts, reader, last_pos, rotations,
                   rotated, seen, old_lines>>

InitParse ==
    /\ InitHistVars
    /\ InitShared
    /\ log_watcher_running = FALSE
    /\ InitSupVars
    /\ InitTailVars

NextParse == \E line \in ParseLines : parse_line(line)

SpecParse == InitParse /\ [][NextParse]_vars

\* ---- the watcher threads of successive starts drawing ids from AppState.request_counter
\* parsed requests per run, the 64-bit counter being far from wrapping
MaxEvents == 2

\* a variant that reads the counter (load) where line 660 has fetch_add
watcher_parses_load(w, line, write_ok) ==
    /\ w \in 1..Len(watchers)
    /\ watchers[w] = "polling"
    /\ request_counter < MaxEvents
    /\ LET request_log == parse_gin_log_line(line, request_counter, NowMs)
       IN  IF request_log # None
           THEN /\ request_counter' = request_counter
                /\ emitted' = <<RequestLogEvent(request_log[1])>>
                /\ appended' = Append(appended, request_log[1])
                /\ history_file' =
                       watcher_persist(history_file, request_log[1], write_ok).file
           ELSE /\ emitted' = <<>>
                /\ UNCHANGED <<request_counter, appended, history_file>>
    /\ watchers' = [watchers EXCEPT ![w] = "loop"]
    /\ last' = [op |-> "watcher_parses", arg |-> <<w, line>>]
    /\ UNCHANGED <<ret, hist_base, ops, callVars, proxy_status, proxy_process,
                   log_watcher_running, config_port, children, start_pc, start_new,
                   start_port, stop_pc, stop_new>>
    /\ UNCHANGED <<log_path_file, files, tail_pc, attempts, reader, last_pos, rotations,
                   rotated, seen, old_lines>>

\* lines 721-771: one iteration of watcher w that reads one new line; appended collects the
\* requests that the watchers produced
watcher_parses(w, line, write_ok) ==
    /\ w \in 1..Len(watchers)
    /\ watchers[w] = "polling"
    /\ request_counter < MaxEvents
    /\ LET request_log == parse_gin_log_line(line, request_counter, NowMs)
       IN  IF request_log # None
           THEN /\ request_counter' = request_counter + 1
                /\ emitted' = <<RequestLogEvent(request_log[1])>>
                /\ appended' = Append(appended, request_log[1])
                /\ history_file' =
                       watcher_persist(history_file, request_log[1], write_ok).file
           ELSE /\ emitted' = <<>>
                /\ UNCHANGED <<request_counter, appended, history_file>>
    /\ watchers' = [watchers EXCEPT ![w] = "loop"]
    /\ last' = [op |-> "watcher_parses", arg |-> <<w, line>>]
    /\ UNCHANGED <<ret, hist_base, ops, callVars, proxy_status, proxy_process,
                   log_watcher_running, config_port, children, start_pc, start_new,
                   start_port, stop_pc, stop_new>>
    /\ UNCHANGED <<log_path_file, files, tail_pc, attempts, reader, last_pos, rotations,
                   rotated, seen, old_lines>>

NextIds ==
    \/ /\ \/ start_check
          \/ start_kill_old(TRUE)
          \/ Len(children) < MaxChildren /\ start_spawn({}, TRUE, TRUE)
          \/ start_store_child(TRUE)
          \/ start_signal_stop
          \/ start_watcher
          \/ start_update_status
          \/ start_emit
          \/ stop_check
          \/ stop_signal
          \/ stop_kill(TRUE)
          \/ stop_update_status
          \/ stop_emit
          \/ \E w \in 1..Len(watchers) : watcher_opens(w, TRUE) \/ watcher_loop(w)
       /\ UNCHANGED <<histData, callVars, tailVars>>
    \/ \E w \in 1..Len(watchers), line \in LogLines :
          watcher_parses(w, line, TRUE)

SpecIds == InitSup /\ [][NextIds]_vars

(***************************************************************************)
(* get_usage_stats: the statistics computed from history.json. A label     *)
(* "YYYY-MM-DD" is the number of the local calendar day since the epoch    *)
(* and a label "YYYY-MM-DDTHH" the number of the local hour: for the years *)
(* 0000 to 9999 the order of the labels as text is the order of these      *)
(* numbers. tz is the offset of the local time zone, now the clock. The    *)
(* order is the order in which the HashMap of lines 2114-2119 hands out    *)
(* its keys, which differs from run to run.                                *)
(***************************************************************************)
HourMs == 3600000
DayMs == 86400000
MaxDayBuckets == 14
MaxHourBuckets == 24

\* lines 275-295: UsageStats::default()
UsageStatsDefault ==
    [total_requests |-> 0, success_count |-> 0, failure_count |-> 0, total_tokens |-> 0,
     input_tokens |-> 0, output_tokens |-> 0, requests_today |-> 0, tokens_today |-> 0,
     models |-> <<>>,
     requests_by_day |-> <<>>, tokens_by_day |-> <<>>, requests_by_hour |-> <<>>,
     tokens_by_hour |-> <<>>]

RECURSIVE Total(_)
Total(ns) == IF ns = <<>> THEN 0 ELSE Head(ns) + Total(Tail(ns))

\* sort_by(|a, b| a.label.cmp(&b.label)) on the labels of a map: ascending, each once
RECURSIVE SortedSeq(_)
SortedSeq(S) ==
    IF S = {} THEN <<>>
    ELSE LET m == CHOOSE x \in S : \A y \in S : x <= y
         IN  <<m>> \o SortedSeq(S \ {m})

\* a variant of line 2024 that counts status 400 as a success
success_count_le(requests) ==
    Cardinality({i \in 1..Len(requests) : requests[i].status <= 400})

\* line 2024
success_count(requests) ==
    Cardinality({i \in 1..Len(requests) : requests[i].status < 400})

\* a variant of line 2065 that leaves tokens_out out
req_tokens_in(req) == unwrap_or(req.tokens_in, 0)

\* line 2065 (and 2047)
req_tokens(req) == unwrap_or(req.tokens_in, 0) + unwrap_or(req.tokens_out, 0)

\* lines 2058-2063
day_key(timestamp, tz) == (timestamp + tz) \div DayMs

\* lines 2058-2069
hour_key(timestamp, tz) == (timestamp + tz) \div HourMs

\* a variant that keeps the first buckets where lines 2081-2083 keep the last
time_series_keepFirst(keys, weights, keep) ==
    LET sorted == SortedSeq(Range(keys))
        points == [k \in 1..Len(sorted) |->
                     [label |-> sorted[k],
                      value |-> Total([i \in 1..Len(keys) |->
                                          IF keys[i] = sorted[k] THEN weights[i] ELSE 0])]]
    IN  IF Len(points) > keep THEN SubSeq(points, 1, keep) ELSE points

\* lines 2064-2071 and 2075-2111: the map from label to the sum of the weights of the
\* requests with that label, as a vector sorted by label, cut to its last keep entries
time_series(keys, weights, keep) ==
    LET sorted == SortedSeq(Range(keys))
        points == [k \in 1..Len(sorted) |->
                     [label |-> sorted[k],
                      value |-> Total([i \in 1..Len(keys) |->
                                          IF keys[i] = sorted[k] THEN weights[i] ELSE 0])]]
    IN  IF Len(points) > keep THEN LastN(points, keep) ELSE points

\* sort_by(|a, b| b.requests.cmp(&a.requests)): descending, entries with equal requests
\* staying in the order they had
RECURSIVE SortedByRequests(_)
SortedByRequests(entries) ==
    IF entries = <<>> THEN <<>>
    ELSE LET k == CHOOSE i \in 1..Len(entries) :
                      /\ \A j \in 1..Len(entries) : entries[j].requests <= entries[i].requests
                      /\ \A j \in 1..(i - 1) : entries[j].requests < entries[i].requests
         IN  <<entries[k]>>
                \o SortedByRequests(SubSeq(entries, 1, k - 1)
                                       \o SubSeq(entries, k + 1, Len(entries)))

\* the map of lines 2114-2119 as the vector of line 2121-2124, in the order of the map
model_map(requests, order) ==
    LET Stored(m) == \E i \in 1..Len(requests) : requests[i].model = m
        keys == SelectSeq(order, Stored)
    IN  [k \in 1..Len(keys) |->
            [model |-> keys[k],
             requests |-> Cardinality({i \in 1..Len(requests) : requests[i].model = keys[k]}),
             tokens |-> Total([i \in 1..Len(requests) |->
                                  IF requests[i].model = keys[k]
                                  THEN req_tokens(requests[i]) ELSE 0])]]

\* a variant without the sort of line 2125
model_usage_unsorted(requests, order) == model_map(requests, order)

\* lines 2113-2125
model_usage(requests, order) == SortedByRequests(model_map(requests, order))

\* lines 2015-2142
get_usage_stats(file, now, tz, order) ==
    LET history == load_request_history(file)
        requests == history.requests
        n == Len(requests)
        total_requests == n
        input_tokens == history.total_tokens_in
        output_tokens == history.total_tokens_out
        today_start == day_key(now, tz) * DayMs - tz
        today == [i \in 1..n |-> IF requests[i].timestamp >= today_start THEN 1 ELSE 0]
        ones == [i \in 1..n |-> 1]
        tokens == [i \in 1..n |-> req_tokens(requests[i])]
        days == [i \in 1..n |-> day_key(requests[i].timestamp, tz)]
        hours == [i \in 1..n |-> hour_key(requests[i].timestamp, tz)]
    IN  IF requests = <<>> THEN UsageStatsDefault
        ELSE [total_requests |-> total_requests,
              success_count |-> success_count(requests),
              failure_count |-> total_requests - success_count(requests),
              total_tokens |-> input_tokens + output_tokens,
              input_tokens |-> input_tokens,
              output_tokens |-> output_tokens,
              requests_today |-> Total(today),
              tokens_today |-> Total([i \in 1..n |-> today[i] * tokens[i]]),
              models |-> model_usage(requests, order),
              requests_by_day |-> time_series(days, ones, MaxDayBuckets),
              tokens_by_day |-> time_series(days, tokens, MaxDayBuckets),
              requests_by_hour |-> time_series(hours, ones, MaxHourBuckets),
              tokens_by_hour |-> time_series(hours, tokens, MaxHourBuckets)]

\* ---- get_usage_stats called on the histories that earlier runs may have left
\* requests of a history, its stride being a number of minutes
MaxStatsRequests == 26

StatsModels == {<<"claude", "opus">>, <<"gpt-4o">>, <<"gemini", "pro">>}

\* the i-th request of a history: every third one failed with 400, every third one with
\* 500; every other one has tokens_in, every third one tokens_out; two of four went to
\* claude-opus, one to gpt-4o and one to gemini-pro
StatsRequest(i, timestamp) ==
    [HistRequest(timestamp, MessagesPath, i, None) EXCEPT
        !.model = IF i % 4 = 0 THEN <<"gpt-4o">>
                  ELSE IF i % 4 = 3 THEN <<"gemini", "pro">>
                  ELSE <<"claude", "opus">>,
        !.status = IF i % 3 = 0 THEN 400 ELSE IF i % 3 = 1 THEN 200 ELSE 500,
        !.tokens_in = IF i % 2 = 1 THEN Some(i) ELSE None,
        !.tokens_out = IF i % 3 = 1 THEN Some(1) ELSE None]

\* history.json holding requests with these timestamps, its totals what
\* add_request_to_history made of them
StatsHistoryFile(timestamps) ==
    LET requests == [i \in 1..Len(timestamps) |-> StatsRequest(i, timestamps[i])]
    IN  [readable |-> TRUE,
         data |-> [requests |-> requests,
                   total_tokens_in |->
                       Total([i \in 1..Len(requests) |-> unwrap_or(requests[i].tokens_in, 0)]),
                   total_tokens_out |->
                       Total([i \in 1..Len(requests) |-> unwrap_or(requests[i].tokens_out, 0)]),
                   total_cost_usd |-> 0]]

\* n requests every 20 minutes, every hour, every 12 hours or every day (up to 16 days),
\* oldest first or newest first
StatsStrides == {HourMs \div 3, HourMs, DayMs \div 2, DayMs}
StatsTimestamps ==
    {[i \in 1..x[1] |-> (IF x[3] THEN x[1] + 1 - i ELSE i) * x[2]] :
        x \in {y \in (0..MaxStatsRequests) \X StatsStrides \X BOOLEAN :
                  y[1] * (y[2] \div (HourMs \div 3)) <= 16 * 72}}

\* 26 requests an hour apart followed by 15 requests a day apart
MixedTimestamps == [i \in 1..41 |-> IF i <= 26 THEN i * HourMs ELSE (i - 24) * DayMs]

StatsHistoryFiles ==
    {StatsHistoryFile(timestamps) : timestamps \in StatsTimestamps \cup {MixedTimestamps}}
        \cup {NoHistoryFile}

\* the local time zones (UTC, UTC+1) and clock readings of a call
TzOffsets == {0, HourMs}
Clocks == {DayMs + HourMs, 2 * DayMs}

\* the orders in which a HashMap may hand out the model names
MapOrders == {order \in [1..Cardinality(StatsModels) -> StatsModels] :
                 Range(order) = StatsModels}

hist_usage_stats(now, tz, order) ==
    /\ ret' = Ok("get_usage_stats", get_usage_stats(history_file, now, tz, order))
    /\ last' = [op |-> "get_usage_stats", arg |-> <<now, tz, order>>]
    /\ UNCHANGED <<histData, callVars, supVars, tailVars>>

InitStats ==
    /\ history_file \in StatsHistoryFiles
    /\ hist_base = "stats"
    /\ appended = <<>>
    /\ ops = 0
    /\ InitShared
    /\ log_watcher_running = FALSE
    /\ InitSupVars
    /\ InitTailVars

NextStats ==
    \E now \in Clocks, tz \in TzOffsets, order \in MapOrders :
        hist_usage_stats(now, tz, order)

SpecStats == InitStats /\ [][NextStats]_vars

\* ---- the watcher and a sidecar whose lines may arrive in two pieces or carry a time
\* that the local zone has twice
\* POST "/v1/chat/completions" | model=gpt-4o
ModelLine == [GinLine(1, ChatPath) EXCEPT !.model = Some(<<"gpt", "-", "4o">>)]
RepeatedHourLine == [GinLine(2, MessagesPath) EXCEPT !.local = "ambiguous"]
FeedLines == {ModelLine, GinLine(1, ManagementPath), RepeatedHourLine}

NextFeed ==
    /\ \/ WatcherNext
       \/ \E line \in FeedLines : writer_append(line)
       \/ writer_append_head(ModelLine)
       \/ writer_append_tail(ModelLine)
    /\ UNCHANGED tailFrame

SpecFeed == InitTail /\ [][NextFeed]_vars

\* the watcher is a thread of its own: it keeps being scheduled
FairSpecTail == SpecTail /\ WF_vars(WatcherNext /\ UNCHANGED tailFrame)

(***************************************************************************)
(* Properties                                                              *)
(***************************************************************************)
Requests(file) == load_request_history(file).requests
Min(a, b) == IF a < b THEN a ELSE b

\* C1: start_proxy called while proxy_status.running is true returns the tracked status
\* and does nothing else: status, child handle, sidecars, watcher threads and the
\* watcher flag are unchanged and nothing is emitted; when the command that returned
\* before was a successful start_proxy, the call returns what that one returned.
C1_StartWhileRunning ==
    [][(last'.op = "start_check" /\ proxy_status.running) =>
          /\ ret' = Ok("start_proxy", proxy_status)
          /\ start_pc' = "idle"
          /\ emitted' = <<>>
          /\ UNCHANGED <<proxy_status, proxy_process, children, watchers,
                         log_watcher_running>>
          /\ (ret.cmd = "start_proxy" /\ ret.ok => ret' = ret)]_vars

\* a second start_proxy has returned early: one sidecar was spawned, one watcher started
C1_Witness ==
    /\ last.op = "start_check"
    /\ start_pc = "idle"
    /\ proxy_status.running
    /\ ret = Ok("start_proxy", proxy_status)
    /\ Len(children) = 1
    /\ Len(watchers) = 1

\* C2: whenever no start_proxy or stop_proxy call is in progress and
\* proxy_status.running is true, a child handle is tracked.
C2_RunningImpliesHandle ==
    (start_pc = "idle" /\ stop_pc = "idle" /\ proxy_status.running)
        => proxy_process # None

\* C9: a stop_proxy that finds the proxy running goes on; it clears the watcher flag,
\* takes the child handle (and, the kill having succeeded, continues), sets running to
\* false, emits that status and returns it.
C9_StopWhileRunning ==
    [][/\ (last'.op = "stop_check" /\ proxy_status.running => stop_pc' = "signal")
       /\ (last'.op = "stop_signal" => ~log_watcher_running' /\ stop_pc' = "kill")
       /\ (last'.op = "stop_kill" /\ last'.arg = <<TRUE>> =>
              proxy_process' = None /\ stop_pc' = "update_status")
       /\ (last'.op = "stop_update_status" =>
              /\ ~proxy_status'.running
              /\ stop_new' = proxy_status'
              /\ stop_pc' = "emit")
       /\ (last'.op = "stop_emit" =>
              /\ ~stop_new.running
              /\ emitted' = <<StatusChanged(stop_new)>>
              /\ ret' = Ok("stop_proxy", stop_new))]_vars

\* a stop_proxy has killed the sidecar and returned
C9_Witness ==
    /\ last.op = "stop_emit"
    /\ ret = Ok("stop_proxy", proxy_status)
    /\ ~proxy_status.running
    /\ proxy_process = None
    /\ ~log_watcher_running
    /\ emitted = <<StatusChanged(proxy_status)>>
    /\ \E c \in 1..Len(children) : children[c] = "terminated"

\* C10: stop_proxy called while proxy_status.running is false returns the tracked status
\* and changes nothing; nothing is emitted.
C10_StopWhileNotRunning ==
    [][(last'.op = "stop_check" /\ ~proxy_status.running) =>
          /\ ret' = Ok("stop_proxy", proxy_status)
          /\ stop_pc' = "idle"
          /\ emitted' = <<>>
          /\ UNCHANGED <<proxy_status, proxy_process, children, watchers,
                         log_watcher_running>>]_vars

\* stop_proxy has returned early while the handle of a dead sidecar was still tracked
C10_Witness ==
    /\ last.op = "stop_check"
    /\ stop_pc = "idle"
    /\ ~proxy_status.running
    /\ ret = Ok("stop_proxy", proxy_status)
    /\ proxy_process # None
    /\ log_watcher_running

\* C11: when stop_proxy holds a child handle and the kill fails, the call returns the
\* error and ends there: proxy_status is not touched and nothing is emitted.
C11_StopKillFails ==
    [][(last'.op = "stop_kill" /\ last'.arg = <<FALSE>> /\ proxy_process # None) =>
          /\ ret' = Err("stop_proxy", "Failed to kill process")
          /\ stop_pc' = "idle"
          /\ emitted' = <<>>
          /\ UNCHANGED proxy_status]_vars

\* a stop_proxy has returned the error of a failed kill and running is still true
C11_Witness ==
    /\ last = [op |-> "stop_kill", arg |-> <<FALSE>>]
    /\ stop_pc = "idle"
    /\ ret = Err("stop_proxy", "Failed to kill process")
    /\ proxy_status.running

\* C12: when the configuration cannot be written or the sidecar cannot be spawned,
\* start_proxy returns an error and ends there: running is and stays false, no child
\* handle is tracked, no sidecar (and so no consumer) and no watcher thread is added.
C12_StartFails ==
    [][(last'.op = "start_spawn" /\ ~(last'.arg[1] /\ last'.arg[2])) =>
          /\ ~ret'.ok /\ ret'.cmd = "start_proxy"
          /\ start_pc' = "idle"
          /\ ~proxy_status'.running
          /\ proxy_process' = None
          /\ Len(children') = Len(children)
          /\ emitted' = <<>>
          /\ UNCHANGED <<proxy_status, watchers, log_watcher_running>>]_vars

\* a start_proxy has failed to spawn the sidecar after an earlier one had succeeded
C12_Witness ==
    /\ last = [op |-> "start_spawn", arg |-> <<TRUE, FALSE>>]
    /\ start_pc = "idle"
    /\ ~ret.ok
    /\ ~proxy_status.running
    /\ proxy_process = None
    /\ Len(children) = 1
    /\ Len(watchers) = 1

\* C13: once the configuration is written and the sidecar spawned, start_proxy goes
\* through to its end and returns a status with running = true, however the kill of
\* the old child, the reclaim of the port and the management calls ended.
C13_BestEffortSteps ==
    [][/\ (last'.op = "start_kill_old" => start_pc' = "spawn")
       /\ (last'.op = "start_spawn" /\ last'.arg = <<TRUE, TRUE>> =>
              start_pc' = "store_child")
       /\ (last'.op = "start_store_child" => start_pc' = "signal_stop")
       /\ (last'.op = "start_signal_stop" => start_pc' = "start_watcher")
       /\ (last'.op = "start_watcher" => start_pc' = "update_status")
       /\ (last'.op = "start_update_status" =>
              start_pc' = "emit" /\ start_new'.running)
       /\ (last'.op = "start_emit" =>
              /\ start_pc' = "idle"
              /\ start_new.running
              /\ ret' = Ok("start_proxy", start_new))]_vars

\* a start_proxy has returned running = true although the port was not reclaimed: an
\* old sidecar, no longer tracked, is still alive beside the new one
C13_Witness ==
    /\ last.op = "start_emit"
    /\ ret.ok /\ ret.cmd = "start_proxy" /\ ret.value.running
    /\ Len(children) = 2
    /\ children[1] = "alive"
    /\ proxy_process = Some(2)

\* C14: when the tracked sidecar has terminated by itself and its consumer has handled
\* the Terminated event, and no start_proxy or stop_proxy call is in progress,
\* proxy_status.running is false.
C14_DeadChildNotRunning ==
    (/\ start_pc = "idle" /\ stop_pc = "idle"
     /\ proxy_process # None
     /\ children[proxy_process[1]] = "reaped")
        => ~proxy_status.running

\* the position of watcher thread w ("none": not started)
WatcherAt(w) == IF w <= Len(watchers) THEN watchers[w] ELSE "none"

\* C15: a watcher thread that is in its polling loop when log_watcher_running is false
\* leaves the loop and ends.
C15_SignalledWatcherStops ==
    \A w \in 1..MaxChildren :
        []((WatcherAt(w) \in {"loop", "polling"} /\ ~log_watcher_running)
           => <>(WatcherAt(w) = "stopped"))

\* C16: while main.log does not exist the watcher waits, counting its attempts up to
\* MaxAttempts, and then ends; it has opened no file, read no line, emitted and stored
\* nothing, and once ended it takes no further step.
C16_GivesUpAfterMaxAttempts ==
    /\ [](attempts <= MaxAttempts)
    /\ [][/\ (last'.op = "watcher_wait" /\ log_path_file = 0 =>
                /\ attempts < MaxAttempts =>
                       tail_pc' = "wait_file" /\ attempts' = attempts + 1
                /\ attempts = MaxAttempts => tail_pc' = "done"
                /\ emitted' = <<>>
                /\ UNCHANGED <<reader, last_pos, seen, history_file, request_counter>>)
           /\ (tail_pc = "done" =>
                /\ tail_pc' = "done"
                /\ last'.op \notin {"watcher_wait", "watcher_check", "watcher_poll",
                                    "watcher_read"}
                /\ emitted' = <<>>
                /\ seen' \subseteq seen
                /\ UNCHANGED <<reader, last_pos, history_file, request_counter>>)]_vars

\* the watcher has given up after MaxAttempts attempts; main.log was created later and
\* is not followed
C16_Witness ==
    /\ tail_pc = "done"
    /\ attempts = MaxAttempts
    /\ reader.file = 0
    /\ log_path_file # 0
    /\ seen = {}
    /\ Requests(history_file) = <<>>

\* C17: the watcher starts at the end of main.log as it is when opened; until it resets
\* its offset, the lines that were in the file then are not read, and so neither
\* emitted nor stored: what is emitted or stored comes from a line read past them.
C17_NoReplayOfOldLines ==
    /\ [](seen \cap old_lines = {})
    /\ [][/\ (last'.op = "watcher_wait" /\ tail_pc' = "loop" =>
                /\ reader' = [file |-> log_path_file, pos |-> Len(files[log_path_file])]
                /\ last_pos' = Len(files[log_path_file]))
           /\ (emitted' # <<>> \/ history_file' # history_file =>
                /\ last'.op = "watcher_read"
                /\ reader.pos < Len(files[reader.file])
                /\ <<reader.file, reader.pos + 1>> \notin old_lines)]_vars

\* the watcher opened a main.log that held a trackable line and has not reset since;
\* it has read and stored a line written later, and only that one
C17_Witness ==
    /\ last.op = "watcher_read"
    /\ old_lines # {}
    /\ \E p \in old_lines : parse_gin_log_line(files[p[1]][p[2]], 0, NowMs) # None
    /\ emitted # <<>>
    /\ Len(Requests(history_file)) = 1
    /\ Cardinality(seen) = 1

\* C18: when no command and no watcher is between its load and its save, history.json
\* holds every request that was appended with success since it was empty, as long as
\* these requests differ in (timestamp, path) and in id and are fewer than 500.
C18_NoLostUpdate ==
    (/\ add_call = None /\ persist_call = None
     /\ hist_base = "empty"
     /\ Len(appended) <= MaxRequests
     /\ Cardinality({Key(r) : r \in Range(appended)}) = Len(appended)
     /\ Cardinality({r.id : r \in Range(appended)}) = Len(appended))
    => Range(appended) \subseteq Range(Requests(history_file))

\* C19: a history.json that is missing or cannot be read or parsed loads as the default
\* record (no requests, zero totals), and an append that finds it so stores the
\* result of appending to that default record.
C19_LoadNeverFails ==
    /\ [](~history_file.readable =>
             load_request_history(history_file) = RequestHistoryDefault)
    /\ [][(/\ ~history_file.readable
            /\ last'.op \in {"add_request_to_history", "watcher_persist"}
            /\ last'.arg[2])
           => /\ history_file'.readable
              /\ history_file' =
                     IF last'.op = "watcher_persist"
                     THEN watcher_persist(NoHistoryFile, last'.arg[1], TRUE).file
                     ELSE add_request_to_history(NoHistoryFile, last'.arg[1], TRUE).file
              /\ Requests(history_file') = <<last'.arg[1]>>]_vars

\* a request was stored over a history.json that could not be parsed
C19_Witness ==
    /\ hist_base = "corrupt"
    /\ Len(appended) = 1
    /\ history_file.readable
    /\ Requests(history_file) = appended

\* C20: a clear_request_history whose write succeeds leaves a history.json that loads
\* as the default record and returns Ok; one whose write fails returns the error and
\* leaves history.json as it was.
C20_ClearEmpties ==
    [][last'.op = "clear_request_history" =>
          IF last'.arg[1]
          THEN /\ ret' = Ok("clear_request_history", Unit)
               /\ load_request_history(history_file') = RequestHistoryDefault
          ELSE /\ ~ret'.ok /\ ret'.cmd = "clear_request_history"
               /\ history_file' = history_file]_vars

\* a full history has been cleared
C20_Witness ==
    /\ last = [op |-> "clear_request_history", arg |-> <<TRUE, MaxRequests>>]
    /\ ret = Ok("clear_request_history", Unit)
    /\ history_file = [readable |-> TRUE, data |-> RequestHistoryDefault]

\* C21: add_request_to_history of a request whose (timestamp, path) is not stored, its
\* write succeeding, leaves that request last in history.json, the requests before it
\* kept in order (the oldest dropped beyond 500), and raises total_tokens_in and
\* total_tokens_out by the request's tokens_in and tokens_out, None counting as 0.
C21_AppendAddsAtEnd ==
    [][(/\ last'.op = "add_request_to_history"
        /\ last'.arg[2]
        /\ ~KeyIn(last'.arg[1], Requests(history_file)))
       => LET old == load_request_history(history_file)
              new == load_request_history(history_file')
              request == last'.arg[1]
              all == Append(old.requests, request)
          IN  /\ new.requests = LastN(all, Min(Len(all), MaxRequests))
              /\ new.total_tokens_in
                    = old.total_tokens_in + unwrap_or(request.tokens_in, 0)
              /\ new.total_tokens_out
                    = old.total_tokens_out + unwrap_or(request.tokens_out, 0)]_vars

\* C22: parse_gin_log_line returns None for every line without "[GIN]", for every
\* line that holds a denied substring, whatever else it holds, and for every line whose
\* path has none of the trackable shapes.
C22_RejectsUntracked ==
    [][last'.op = "parse_gin_log_line" =>
          LET line == last'.arg[1]
          IN  (\/ ~line.marker
               \/ \E d \in DeniedParts : contains_seq(LineText(line), d)
               \/ ~\E t \in TrackableParts : contains_seq(line.path, t))
              => ret' = Ok("parse_gin_log_line", None)]_vars

\* C23: for every line that holds "[GIN]", matches GIN_REGEX and passes the deny and
\* trackable tests, parse_gin_log_line returns a request whose status, method and path
\* are the ones captured from the line.
C23_EchoesCaptures ==
    [][last'.op = "parse_gin_log_line" =>
          LET line == last'.arg[1]
          IN  (/\ line.marker
               /\ line.grammar
               /\ ~\E d \in DeniedParts : contains_seq(LineText(line), d)
               /\ \E t \in TrackableParts : contains_seq(LineText(line), t))
              => /\ ret'.ok
                 /\ ret'.value # None
                 /\ ret'.value[1].status = line.status
                 /\ ret'.value[1].method = line.method
                 /\ ret'.value[1].path = line.path]_vars

\* C24: the duration_ms of a parsed request is the integer of a token "<n>ms", 1000
\* times the seconds of a token "<n>s" or "<n>.<fff>s" (so n * 1000 + fff), and 0 for
\* every other token; no duration token makes an otherwise accepted line rejected.
C24_DurationInMs ==
    [][last'.op = "parse_gin_log_line" =>
          LET line == last'.arg[1]
              d == line.duration
              ms == IF d.unit = "ms" /\ d.frac = None THEN d.whole
                    ELSE IF d.unit = "s" THEN d.whole * 1000 + unwrap_or(d.frac, 0)
                    ELSE 0
          IN  /\ (ret'.ok /\ ret'.value # None) => ret'.value[1].duration_ms = ms
              /\ [line EXCEPT !.duration = BaseLine.duration] = BaseLine
                    => (ret'.ok /\ ret'.value # None)]_vars

\* C25: the provider of a parsed request is the one named by the segment after
\* "/api/provider/" when the path has that segment ("anthropic" gives "claude"), and
\* otherwise the one that the keywords of the request's model name indicate, "unknown"
\* when none does.
C25_ProviderOrder ==
    [][(last'.op = "parse_gin_log_line" /\ ret'.ok /\ ret'.value # None) =>
          LET path == last'.arg[1].path
              request == ret'.value[1]
          IN  request.provider =
                 IF contains_seq(path, <<"/", "api", "/", "provider", "/">>)
                 THEN detect_provider_from_path(path)[1]
                 ELSE detect_provider_from_model(request.model)]_vars

\* C26: the model of a parsed request is the token after "model=" when the line has
\* one; otherwise the name that follows the first "/models/" of the path, ending before
\* the next '/' or ':', when there is such a name; otherwise "unknown".
C26_ModelOrder ==
    [][(last'.op = "parse_gin_log_line" /\ ret'.ok /\ ret'.value # None) =>
          LET line == last'.arg[1]
              path == line.path
              starts == {i \in 1..Len(path) :
                            /\ i + 2 <= Len(path)
                            /\ <<path[i], path[i + 1], path[i + 2]>> = <<"/", "models", "/">>}
              names == {SubSeq(path, i + 3, j) : i \in starts, j \in 1..Len(path)}
              carried == {n \in names :
                            /\ n # <<>>
                            /\ \A k \in 1..Len(n) : n[k] \notin {"/", ":"}
                            /\ \E i \in starts :
                                  /\ \A h \in starts : i <= h
                                  /\ n = SubSeq(path, i + 3, i + 2 + Len(n))
                                  /\ i + 2 + Len(n) < Len(path)
                                        => path[i + 3 + Len(n)] \in {"/", ":"}}
          IN  IF line.model # None THEN ret'.value[1].model = line.model[1]
              ELSE IF carried # {} THEN ret'.value[1].model \in carried
              ELSE ret'.value[1].model = <<"unknown">>]_vars

\* a Gemini call without a model token got its model from the path
C26_Witness ==
    /\ last.op = "parse_gin_log_line"
    /\ last.arg[1].model = None
    /\ last.arg[1].path = GeminiPath
    /\ ret.ok
    /\ ret.value # None
    /\ ret.value[1].model = <<"gemini", "-", "pro">>

\* C27: the id of every request a watcher produces is its timestamp together with the
\* value of the shared counter at that moment, the counter never decreases and moves up
\* with every request produced; so the requests produced in one run have pairwise
\* different ids, whichever watcher threads produced them and whatever starts and stops
\* happened in between.
C27_UniqueIds ==
    /\ [](\A i, j \in 1..Len(appended) : i < j => appended[i].id # appended[j].id)
    /\ [][/\ request_counter' >= request_counter
          /\ (last'.op = "watcher_parses" /\ emitted' # <<>>)
                => /\ emitted'[1].payload.id
                         = <<emitted'[1].payload.timestamp, request_counter>>
                   /\ request_counter' > request_counter
                   /\ appended' = Append(appended, emitted'[1].payload)]_vars

\* after a stop and a second start two watcher threads are alive, and the second has just
\* produced a request with the timestamp of an earlier one
C27_Witness ==
    /\ Len(watchers) = 2
    /\ watchers[1] # "stopped"
    /\ last.op = "watcher_parses"
    /\ last.arg[1] = 2
    /\ Len(appended) = 2
    /\ appended[1].timestamp = appended[2].timestamp
    /\ appended[1].id = <<1000, 0>>
    /\ appended[2].id = <<1000, 1>>

C32_OneWatcherLoops ==
    Cardinality({w \in 1..Len(watchers) : watchers[w] \in {"loop", "polling"}}) <= 1

\* C33: no step of start_proxy, stop_proxy or the consumer kills a process while it holds
\* the lock of proxy_status or of proxy_process.
C33_NoKillUnderLock ==
    [][~(held_lock(last'.op) # "none" /\ kills_child(last'.op, proxy_process))]_vars

\* C34: the text that the watcher hands to parse_gin_log_line always ends with its
\* newline: a read never stops after the head of a line whose rest is not yet written.
C34_OnlyCompleteLines ==
    [][(last'.op = "watcher_read" /\ reader'.pos > reader.pos)
       => files[reader.file][reader'.pos].part # "head"]_vars

\* C35: reading a line never ends the watcher thread, whether the line parses or not and
\* whether history.json can be written or not: after it the thread reads on or returns
\* to its loop.
C35_ReadNeverStops ==
    [][last'.op = "watcher_read" => tail_pc' \in {"read", "loop"}]_vars

\* C36: parse_gin_log_line returns for every line, with None or a request; for a line
\* that passes all tests and whose date and time are no calendar date, or a wall-clock
\* time that the local zone has twice or not at all, it returns a request whose timestamp
\* is the clock reading.
C36_ParseIsTotal ==
    [][last'.op = "parse_gin_log_line" =>
          LET line == last'.arg[1]
          IN  /\ ret'.ok
              /\ (~parse_rejects(line) /\ (line.secs = 0 \/ line.local # "single"))
                    => /\ ret'.value # None
                       /\ ret'.value[1].timestamp = NowMs]_vars

\* C37: when the Terminated event of a sidecar other than the tracked one is handled
\* while the tracked sidecar, spawned by the start_proxy that returned last, is alive
\* and proxy_status.running is true, proxy_status.running stays true.
C37_StaleTerminationKeepsRunning ==
    [][(/\ last'.op = "consumer_terminated"
        /\ start_pc = "idle" /\ stop_pc = "idle"
        /\ proxy_status.running
        /\ proxy_process # None
        /\ proxy_process[1] # last'.arg[1]
        /\ children[proxy_process[1]] = "alive")
          => proxy_status'.running]_vars


\* C38: a step that puts a proxy-status-changed event on the UI channel and after which
\* nothing is in progress (no start_proxy, no stop_proxy, no Terminated event waiting
\* for its consumer) has emitted the value proxy_status.running then has.
C38_LastEventIsStatus ==
    [][(/\ emitted' # <<>>
        /\ start_pc' = "idle" /\ stop_pc' = "idle"
        /\ \A c \in 1..Len(children') : children'[c] # "terminated")
          => emitted'[1].payload.running = proxy_status'.running]_vars

\* C39: a stop_proxy that returns the error of a failed kill leaves proxy_process and
\* log_watcher_running as they were when it was called: the child is still tracked and
\* the flag is still true.
C39_FailedStopChangesNothing ==
    [][(last'.op = "stop_kill" /\ ret' = Err("stop_proxy", "Failed to kill process")
        /\ stop_pc' = "idle" /\ proxy_process # None)
          => /\ proxy_process' = proxy_process
             /\ log_watcher_running']_vars


\* C40: from every state where proxy_status.running is false and no start_proxy is in
\* progress, unless the proxy is started again, a state is reached where
\* log_watcher_running is false and the watcher thread has ended.
C40_NotRunningStopsWatchers ==
    \A w \in 1..MaxChildren :
        (~proxy_status.running /\ start_pc = "idle")
            ~> (\/ proxy_status.running
                \/ start_pc # "idle"
                \/ ~log_watcher_running /\ WatcherAt(w) \in {"none", "stopped"})


\* C3: no two requests stored in history.json have the same (timestamp, path).
C3_NoDuplicateKeys ==
    Cardinality({Key(r) : r \in Range(Requests(history_file))})
        = Len(Requests(history_file))

\* C4: history.json never holds more than 500 requests, and a request that is new (by
\* key and by id) and whose write succeeds ends up last, the requests before it kept in
\* order and only the oldest ones dropped; no other append changes the stored requests
\* except in that way.
C4_RetentionBound ==
    /\ [](Len(Requests(history_file)) <= MaxRequests)
    /\ [][last'.op \in {"add_request_to_history", "watcher_persist"} =>
            LET old == Requests(history_file)
                new == Requests(history_file')
                all == Append(old, last'.arg[1])
                kept == LastN(all, Min(Len(all), MaxRequests))
            IN  /\ new = old \/ new = kept
                /\ (last'.arg[2] /\ ~KeyIn(last'.arg[1], old) /\ ~IdIn(last'.arg[1], old))
                      => new = kept]_vars

\* the full history has taken one more request and lost its oldest one
C4_Witness ==
    /\ hist_base = "full"
    /\ Len(appended) = 1
    /\ Len(Requests(history_file)) = MaxRequests
    /\ Requests(history_file)[1] = Requests(FullHistoryFile)[2]
    /\ Requests(history_file)[MaxRequests] = appended[1]

\* the requests appended, one at a time, since the history was empty
AppendedSinceEmpty ==
    (IF hist_base = "full" THEN Requests(FullHistoryFile) ELSE <<>>) \o appended

\* C5: after more than 500 requests with pairwise different (timestamp, path) have been
\* appended to an empty history, history.json holds the last 500 of them, in order.
C5_LastFiveHundred ==
    (/\ Len(AppendedSinceEmpty) > MaxRequests
     /\ Cardinality({Key(r) : r \in Range(AppendedSinceEmpty)}) = Len(AppendedSinceEmpty))
    => Requests(history_file) = LastN(AppendedSinceEmpty, MaxRequests)

\* C6: add_request_to_history of a request whose (timestamp, path) is already stored
\* leaves the record as it was: requests, token totals and cost.
C6_DuplicateAppendIsNoop ==
    [][(last'.op = "add_request_to_history"
        /\ KeyIn(last'.arg[1], Requests(history_file)))
       => load_request_history(history_file') = load_request_history(history_file)]_vars

\* a trackable line of the current main.log that the watcher, having reset after the
\* rotation, has not parsed
PendingLine ==
    /\ rotated
    /\ log_path_file # 0
    /\ \E k \in 1..Len(files[log_path_file]) :
          /\ <<log_path_file, k>> \notin seen
          /\ parse_gin_log_line(files[log_path_file][k], 0, NowMs) # None

\* C7: once the watcher has reset its offset after a rotation, every trackable line of
\* the new main.log is eventually parsed (unless the watcher is stopped or the file is
\* rotated again).
C7_RotatedLinesIngested ==
    [](PendingLine => <>(~PendingLine \/ tail_pc = "done"))

\* C8: after a rotation, when the watcher reads again a line it has read before and
\* whose (timestamp, path) is stored in history.json, it emits no request-log event.
C8_NoReEmitAfterRotation ==
    [][(/\ last'.op = "watcher_read"
        /\ rotated
        /\ <<reader.file, reader.pos + 1>> \in seen
        /\ emitted' # <<>>)
       => ~KeyIn(emitted'[1].payload, Requests(history_file))]_vars

====
